---- MODULE Spec2Model ----
(***************************************************************************)
(* Model of the voting-session ballot path of vote-app-backend:            *)
(* controllers/voteController.js (castVoteInSession), models/Vote.js       *)
(* (Vote.castVoteInSession and the unique index), models/VotingSession     *)
(* (src/models/Poll.js, second half), controllers/votingSessionController  *)
(* and controllers/userController.js (deleteUser); further the legacy       *)
(* castVote, the middleware authenticateToken / requireAdmin, the User      *)
(* model (User.create, initializeDefaultAdmin), the creation and update of  *)
(* sessions and polls with their time windows, and the poll handlers.       *)
(*                                                                         *)
(* Every `await` of a handler is a point where other requests may run, so  *)
(* a handler is a sequence of steps, one per storage operation.            *)
(***************************************************************************)
EXTENDS Integers, Sequences, FiniteSets, TLC

VARIABLES
    sessions,   \* the votingsessions collection: session id -> document or None
    votes,      \* the votes collection: a set of ballot documents
    users,      \* the users collection: a set of user documents
    now,        \* the wall clock (new Date(), Date.now)
    req,        \* the castVoteInSession requests in flight, one per slot
    del,        \* the deletion in flight (deleteVotingSession, deleteAllVotes)
    adminResp,  \* the answer of the last request that is answered in one step
    started,    \* number of cast requests received so far
    res,        \* the getSessionResults request in flight
    polls,      \* the polls collection: poll id -> document or None
    pollReq,    \* the poll request in flight (activate, end, update, assign, remove)
    http,       \* the request passing the middleware (authenticateToken, requireAdmin)
    userReq     \* the user creations in flight (User.create, initializeDefaultAdmin)

vars == <<sessions, votes, users, now, req, del, adminResp, started, res, polls, pollReq,
         http, userReq>>

\* ---------------------------------------------------------------- bounds
MaxCasts == 3      \* cast requests received in a run of Spec
MaxSeqCasts == 2   \* cast requests received in a run of SpecSeq
MaxTime == 3       \* the clock stops here
MaxResCasts == 1   \* cast requests received in a run of SpecRes
MaxLegacyCasts == 3 \* cast requests received in a run of SpecLegacy
MaxAuthCasts == 1  \* cast requests received in a run of SpecAuth
MaxCreates == 3    \* user creations begun in a run of SpecUsers
MaxRaceCasts == 2  \* cast requests received in a run of SpecRace

\* ---------------------------------------------------------------- values
None == "none"

Procs == {1, 2}
UserIds == {"u1", "a1"}
SessionIds == {"s1", "s2"}
PollIds == {"p1"}

\* role of a stored user (userSchema.role)
AdminIds == {"a1", "a2"}
Role(u) == IF u \in AdminIds THEN "admin" ELSE "user"

\* a user document (userSchema): username and email are strings
UserDoc(id, username, email, role) ==
    [_id |-> id, username |-> username, email |-> email, role |-> role]

\* the users the specifications start with: u1, u2, a1, a2 are stored under the
\* usernames and emails <<"u","1">>, <<"u","1","@">>, ...
SeedName(id) ==
    IF id \in {"u1", "u2"} THEN <<"u", IF id = "u1" THEN "1" ELSE "2">>
    ELSE <<"a", IF id = "a1" THEN "1" ELSE "2">>
SeedUser(id) == UserDoc(id, SeedName(id), SeedName(id) \o <<"@">>, Role(id))

UserIdsOf(us) == {u._id : u \in us}

\* Strings are sequences of characters, so that trim() is computed.
IsSpace(ch) == ch = " "

RECURSIVE TrimStart(_)
TrimStart(s) ==
    IF s = <<>> THEN <<>>
    ELSE IF IsSpace(Head(s)) THEN TrimStart(Tail(s)) ELSE s

RECURSIVE TrimEnd(_)
TrimEnd(s) ==
    IF s = <<>> THEN <<>>
    ELSE IF IsSpace(s[Len(s)]) THEN TrimEnd(SubSeq(s, 1, Len(s) - 1)) ELSE s

\* String.prototype.trim
Trim(s) == TrimEnd(TrimStart(s))

\* candidate names of request bodies
NameA == <<"A">>
NameB == <<" ", "B", " ">>
NameBlank == <<" ", " ">>

\* the predefined candidates of a session (embedded documents)
CandName(c) == IF c = "c1" THEN <<"A">> ELSE <<"B">>
Cand(c) == [_id |-> c, name |-> CandName(c)]

\* ---------------------------------------------------------------- answers
Resp(status, message) == [status |-> status, message |-> message]

RespSessionIdRequired == Resp(400, "Voting session ID is required")
RespNameRequired == Resp(400, "Candidate name is required")
RespSessionNotFound == Resp(404, "Voting session not found")
RespNotAssigned == Resp(403, "You are not assigned to this voting session")
RespNotActive == Resp(400, "Voting session is not active")
RespNotStarted == Resp(400, "Voting session has not started yet")
RespHasEnded == Resp(400, "Voting session has ended")
RespCustomNotAllowed == Resp(400, "Adding new candidates is not allowed for this voting session")
RespCandidateNotFound == Resp(400, "Candidate not found in this voting session")
RespAlreadyVoted == Resp(409, "User has already voted in this voting session")
RespServerError == Resp(500, "Server error during vote casting")
RespVoteCast == Resp(201, "Vote cast successfully")
RespLegacyAlreadyVoted == Resp(409, "User has already voted")

\* ---------------------------------------------------------------- documents
\* An optional value is a sequence of length 0 (absent, null, undefined) or 1.
Absent == <<>>
Some(x) == <<x>>

\* votingSessionSchema: the fields the ballot path reads
SessionDoc(status, assigned, cands, start, end, allowNew) ==
    [status |-> status, assignedUsers |-> assigned, candidates |-> cands,
     startDate |-> start, endDate |-> end, allowNewCandidates |-> allowNew]

\* VotingSession.findById / VotingSessionModel.findById
FindSessionById(sid) == IF sid \in SessionIds THEN sessions[sid] ELSE Absent

\* a lookup that filters on the wrong session
FindVoteOfOtherSession(u, sid) ==
    {v \in votes : v.userId = u /\ v.votingSessionId # sid}

\* VoteModel.findOne({ userId, votingSessionId })
FindVote(u, sid) == {v \in votes : v.userId = u /\ v.votingSessionId = sid}

\* a collection without the unique index
NoUniqueIndex(doc) == TRUE

\* the unique index { userId: 1, votingSessionId: 1 }: may this document be inserted?
UniqueIndexOk(doc) == FindVote(doc.userId, doc.votingSessionId) = {}

\* a query that leaves out the assignedUsers condition
IsSessionStored(sid, u) == FindSessionById(sid) # Absent

\* VotingSession.isUserAssignedToSession

IsUserAssignedToSession(sid, u) ==
    LET session == FindSessionById(sid) IN
    IF session = Absent THEN FALSE ELSE u \in session[1].assignedUsers

\* the ids of the stored users
StoredUserIds == UserIdsOf(users)

\* ---------------------------------------------------------------- requests
IdleReq ==
    [pc |-> "idle", n |-> 0, userId |-> None, votingSessionId |-> None,
     candidateName |-> <<>>, candidateId |-> None, isCustomCandidate |-> FALSE,
     votingSession |-> Absent, vote |-> Absent, resp |-> Absent]

IdleDel == [pc |-> "idle", id |-> None]

\* a getSessionResults request: the caller, the session asked for, what the three
\* reads of Vote.getSessionResults returned so far, and the answer
IdleRes ==
    [pc |-> "idle", caller |-> None, votingSessionId |-> None, results |-> <<>>,
     totalVotes |-> 0, resp |-> Absent]

\* a request body without the fields the handler reads
NoBody == [userIds |-> {}]

\* a poll request: the handler, the caller, the poll and the request body
IdlePollReq == [pc |-> "idle", op |-> None, caller |-> None, id |-> None, body |-> NoBody]

\* a request on its way through the middleware: the route asked for, the
\* Authorization header, the user authenticateToken attached, and the answer if
\* the middleware gave one
IdleHttp ==
    [pc |-> "idle", route |-> None, header |-> <<>>, decoded |-> None, user |-> Absent,
     resp |-> Absent]

\* next() into the route handler: the first step of a handler takes the request
\* over from the middleware, if it came that way
Enter == http' = IF http.pc = "handler" THEN [IdleHttp EXCEPT !.pc = "handled"] ELSE http

InFlight(p) == req[p].pc \notin {"idle", "done"}

\* no request is being handled
Quiet == (\A p \in Procs : ~InFlight(p)) /\ del.pc = "idle"

\* res.status(...).json(...): the request is answered
Answer(p, r) == req' = [req EXCEPT ![p].pc = "done", ![p].resp = Some(r)]

\* ---------------------------------------------------------------- castVoteInSession
\* the body checks without the candidate-name check
InputChecksWithoutName(sid, name) ==
    IF sid = None THEN Some(RespSessionIdRequired) ELSE Absent

\* voteController.js 16-23: the checks on the request body alone
InputChecks(sid, name) ==
    IF sid = None THEN Some(RespSessionIdRequired)
    ELSE IF name = <<>> \/ Trim(name) = <<>> THEN Some(RespNameRequired)
    ELSE Absent

\* a status check that refuses draft sessions only
IsDraft(session) == session.status = "draft"

\* voteController.js 38

NotActive(session) == session.status # "active"

\* voteController.js 44
NotStartedYet(session, t) ==
    session.startDate # Absent /\ t < session.startDate[1]

\* an end check that excludes the end instant
HasEndedAtEnd(session, t) ==
    session.endDate # Absent /\ t >= session.endDate[1]

\* voteController.js 47

HasEnded(session, t) ==
    session.endDate # Absent /\ t > session.endDate[1]

\* a handler that ignores allowNewCandidates
CustomNeverRefused(session, custom) == FALSE

\* voteController.js 52

CustomNotAllowed(session, custom) == custom /\ ~session.allowNewCandidates

\* a candidate check that only asks whether the session has candidates
AnyCandidateExists(session, cid) == Len(session.candidates) > 0

\* voteController.js 58

CandidateExists(session, cid) ==
    \E i \in 1..Len(session.candidates) : session.candidates[i]._id = cid

\* voteController.js 33-62: the checks made once the session has been read;
\* session is the document read at line 26, isAssigned the answer of line 32,
\* t the clock read at line 43
SessionChecks(session, isAssigned, t, cid, custom) ==
    IF ~isAssigned THEN Some(RespNotAssigned)
    ELSE IF NotActive(session) THEN Some(RespNotActive)
    ELSE IF NotStartedYet(session, t) THEN Some(RespNotStarted)
    ELSE IF HasEnded(session, t) THEN Some(RespHasEnded)
    ELSE IF CustomNotAllowed(session, custom) THEN Some(RespCustomNotAllowed)
    ELSE IF ~custom /\ cid # None /\ ~CandidateExists(session, cid)
        THEN Some(RespCandidateNotFound)
    ELSE Absent

\* Vote.js 73-79: new VoteModel({...}); _id is fresh, timestamp defaults to Date.now
NewVote(r, t) ==
    [_id |-> r.n, userId |-> r.userId, votingSessionId |-> r.votingSessionId,
     candidateId |-> r.candidateId, candidateName |-> Trim(Trim(r.candidateName)),
     isCustomCandidate |-> r.isCustomCandidate, timestamp |-> t]

\* the request passes authenticateToken and reaches the handler
CastReceive(p, u, sid, name, cid, custom) ==
    /\ ~InFlight(p)
    /\ u \in StoredUserIds
    /\ started' = started + 1
    /\ req' = [req EXCEPT ![p] =
                 [IdleReq EXCEPT !.pc = "validate", !.n = started + 1, !.userId = u,
                                 !.votingSessionId = sid, !.candidateName = name,
                                 !.candidateId = cid, !.isCustomCandidate = custom]]
    /\ UNCHANGED <<sessions, votes, users, now, del, adminResp>>
    /\ UNCHANGED <<res, polls, pollReq>>
    /\ Enter
    /\ UNCHANGED userReq

\* voteController.js 10-29: validate the body, then VotingSession.findById
CastFindSession(p) ==
    /\ req[p].pc = "validate"
    /\ LET r == req[p]
           bad == InputChecks(r.votingSessionId, r.candidateName)
           session == FindSessionById(r.votingSessionId)
       IN  IF bad # Absent THEN Answer(p, bad[1])
           ELSE IF session = Absent THEN Answer(p, RespSessionNotFound)
           ELSE req' = [req EXCEPT ![p].pc = "isAssigned", ![p].votingSession = session]
    /\ UNCHANGED <<sessions, votes, users, now, del, adminResp, started>>
    /\ UNCHANGED <<res, polls, pollReq>>
    /\ UNCHANGED http
    /\ UNCHANGED userReq

\* voteController.js 31-71: VotingSession.isUserAssignedToSession, then the checks
\* on the session read before, up to the call of Vote.castVoteInSession
CastCheckSession(p) ==
    /\ req[p].pc = "isAssigned"
    /\ LET r == req[p]
           isAssigned == IsUserAssignedToSession(r.votingSessionId, r.userId)
           bad == SessionChecks(r.votingSession[1], isAssigned, now,
                                r.candidateId, r.isCustomCandidate)
       IN  IF bad # Absent THEN Answer(p, bad[1])
           ELSE req' = [req EXCEPT ![p].pc = "findOne"]
    /\ UNCHANGED <<sessions, votes, users, now, del, adminResp, started>>
    /\ UNCHANGED <<res, polls, pollReq>>
    /\ UNCHANGED http
    /\ UNCHANGED userReq

\* Vote.js 65-79: the pre-check VoteModel.findOne, then new VoteModel;
\* voteController.js 92-94 answers the thrown 'already voted' with 409
CastFindExisting(p) ==
    /\ req[p].pc = "findOne"
    /\ LET r == req[p]
       IN  IF FindVote(r.userId, r.votingSessionId) # {}
           THEN Answer(p, RespAlreadyVoted)
           ELSE req' = [req EXCEPT ![p].pc = "save", ![p].vote = Some(NewVote(r, now))]
    /\ UNCHANGED <<sessions, votes, users, now, del, adminResp, started>>
    /\ UNCHANGED <<res, polls, pollReq>>
    /\ UNCHANGED http
    /\ UNCHANGED userReq

\* Vote.js 81: vote.save(); the unique index rejects a second ballot of the pair
\* with a duplicate-key error, which voteController.js 92-98 answers with 500
CastSave(p) ==
    /\ req[p].pc = "save"
    /\ LET doc == req[p].vote[1]
       IN  IF UniqueIndexOk(doc)
           THEN /\ votes' = votes \cup {doc}
                /\ req' = [req EXCEPT ![p].pc = "populate"]
           ELSE /\ votes' = votes
                /\ Answer(p, RespServerError)
    /\ UNCHANGED <<sessions, users, now, del, adminResp, started>>
    /\ UNCHANGED <<res, polls, pollReq>>
    /\ UNCHANGED http
    /\ UNCHANGED userReq

\* Vote.js 82-84: VoteModel.findById(vote._id), null when the ballot is gone;
\* voteController.js 73-82 reads vote._id, which throws on null (500)
CastRespond(p) ==
    /\ req[p].pc = "populate"
    /\ LET doc == req[p].vote[1]
       IN  IF \E v \in votes : v._id = doc._id
           THEN Answer(p, RespVoteCast)
           ELSE Answer(p, RespServerError)
    /\ UNCHANGED <<sessions, votes, users, now, del, adminResp, started>>
    /\ UNCHANGED <<res, polls, pollReq>>
    /\ UNCHANGED http
    /\ UNCHANGED userReq

\* ---------------------------------------------------------------- castVote (legacy)
\* Vote.js 46-49: VoteModel.findOne({ userId, votingSessionId: { $exists: false } })
FindLegacyVote(u) == {v \in votes : v.userId = u /\ v.votingSessionId = None}

\* Vote.js 54-57: new VoteModel({ userId, candidateName: candidateName.trim() }),
\* after the trim of voteController.js 114; no votingSessionId is set
NewLegacyVote(r, t) ==
    [_id |-> r.n, userId |-> r.userId, votingSessionId |-> None,
     candidateId |-> None, candidateName |-> Trim(Trim(r.candidateName)),
     isCustomCandidate |-> FALSE, timestamp |-> t]

\* voteSchema (Vote.js 3-33): the paths marked required are set
ValidateVote(doc) ==
    /\ doc.userId # None
    /\ doc.votingSessionId # None
    /\ doc.candidateName # <<>>

\* the request passes authenticateToken and requireUser and reaches castVote
LegacyCastReceive(p, u, name) ==
    /\ ~InFlight(p)
    /\ u \in StoredUserIds
    /\ started' = started + 1
    /\ req' = [req EXCEPT ![p] =
                 [IdleReq EXCEPT !.pc = "legacyValidate", !.n = started + 1,
                                 !.userId = u, !.candidateName = name]]
    /\ UNCHANGED <<sessions, votes, users, now, del, adminResp>>
    /\ UNCHANGED <<res, polls, pollReq>>
    /\ Enter
    /\ UNCHANGED userReq

\* voteController.js 105-117 and Vote.js 43-57: the name check, the pre-check
\* VoteModel.findOne, whose 'User has already voted' voteController.js 128-130
\* answers with 409, then new VoteModel
LegacyCastFindExisting(p) ==
    /\ req[p].pc = "legacyValidate"
    /\ LET r == req[p]
       IN  IF Trim(r.candidateName) = <<>> THEN Answer(p, RespNameRequired)
           ELSE IF \E v \in FindLegacyVote(r.userId) : v.candidateName # <<>>
           THEN Answer(p, RespLegacyAlreadyVoted)
           ELSE req' = [req EXCEPT ![p].pc = "legacySave",
                                   ![p].vote = Some(NewLegacyVote(r, now))]
    /\ UNCHANGED <<sessions, votes, users, now, del, adminResp, started>>
    /\ UNCHANGED <<res, polls, pollReq>>
    /\ UNCHANGED http
    /\ UNCHANGED userReq

\* Vote.js 59-60 and voteController.js 118-131: vote.save() validates the
\* document against voteSchema and inserts it under the unique index; a
\* validation error or a duplicate-key error is answered with 500
LegacyCastSave(p) ==
    /\ req[p].pc = "legacySave"
    /\ LET doc == req[p].vote[1]
       IN  IF ValidateVote(doc) /\ UniqueIndexOk(doc)
           THEN /\ votes' = votes \cup {doc}
                /\ Answer(p, RespVoteCast)
           ELSE /\ votes' = votes
                /\ Answer(p, RespServerError)
    /\ UNCHANGED <<sessions, users, now, del, adminResp, started>>
    /\ UNCHANGED <<res, polls, pollReq>>
    /\ UNCHANGED http
    /\ UNCHANGED userReq

\* ---------------------------------------------------------------- results
\* Array.prototype.sort() without a comparator orders strings by UTF-16 code unit
CodeUnit(ch) == IF ch = " " THEN 32 ELSE IF ch = "A" THEN 65 ELSE 66

RECURSIVE NameLess(_, _)
NameLess(a, b) ==
    IF b = <<>> THEN FALSE
    ELSE IF a = <<>> THEN TRUE
    ELSE IF Head(a) = Head(b) THEN NameLess(Tail(a), Tail(b))
    ELSE CodeUnit(Head(a)) < CodeUnit(Head(b))

\* candidates.sort()
RECURSIVE SortNames(_)
SortNames(S) ==
    IF S = {} THEN <<>>
    ELSE LET m == CHOOSE x \in S : \A y \in S \ {x} : NameLess(x, y)
         IN  <<m>> \o SortNames(S \ {m})

\* a $match stage that lets every ballot through
AllVotes(sid) == votes

\* { $match: { votingSessionId } }, and the filter of countDocuments and distinct
SessionVotes(sid) == {v \in votes : v.votingSessionId = sid}

\* the ballots in the scope of a results request: a session, or every ballot
\* for the legacy getVoteResults (no $match stage, no filter)
ScopeVotes(sid) == IF sid = None THEN votes ELSE SessionVotes(sid)

\* VoteModel.distinct('candidateName', ...) as a set
DistinctNames(vs) == {v.candidateName : v \in vs}

\* the $group and $project stages for one candidate name
Group(vs, name) ==
    [candidateName |-> name,
     voteCount |-> Cardinality({v \in vs : v.candidateName = name}),
     customCandidateCount |->
        Cardinality({v \in vs : v.candidateName = name /\ v.isCustomCandidate})]

\* the $group and $project stages of the legacy getVoteResults
LegacyGroup(vs, name) ==
    [candidateName |-> name,
     voteCount |-> Cardinality({v \in vs : v.candidateName = name})]

\* the arrangements of a finite set as sequences
Arrangements(S) ==
    {q \in [1..Cardinality(S) -> S] : \A i, j \in DOMAIN q : q[i] = q[j] => i = j}

\* a pipeline without the $sort stage: the groups in any order
Unsorted(gs) == Arrangements(gs)

\* { $sort: { voteCount: -1 } }: the order among equal counts is not determined
SortedByCount(gs) ==
    {q \in Arrangements(gs) :
        \A i \in 1..(Len(q) - 1) : q[i].voteCount >= q[i + 1].voteCount}

\* the answers of the results handler
RespResults(sid, results, totalVotes, names) ==
    [status |-> 200,
     message |-> IF sid = None THEN "Vote results retrieved successfully"
                 ELSE "Voting session results retrieved successfully",
     results |-> results, totalVotes |-> totalVotes,
     totalCandidates |-> Cardinality(names), candidates |-> SortNames(names)]

ResultsInFlight == res.pc \notin {"idle", "done"}

ResultsAnswer(r) == res' = [res EXCEPT !.pc = "done", !.resp = Some(r)]

\* routes/votingSessions GET /:votingSessionId/results, behind authenticateToken
ResultsReceive(caller, sid) ==
    /\ ~ResultsInFlight
    /\ caller \in StoredUserIds
    /\ res' = [IdleRes EXCEPT !.pc = "findSession", !.caller = caller,
                              !.votingSessionId = sid]
    /\ UNCHANGED <<sessions, votes, users, now, req, del, adminResp, started,
                   polls, pollReq>>
    /\ Enter
    /\ UNCHANGED userReq

\* routes/votes GET /results, behind authenticateToken and requireAdmin
LegacyResultsReceive(caller) ==
    /\ ~ResultsInFlight
    /\ caller \in StoredUserIds
    /\ Role(caller) = "admin"
    /\ res' = [IdleRes EXCEPT !.pc = "aggregate", !.caller = caller]
    /\ UNCHANGED <<sessions, votes, users, now, req, del, adminResp, started,
                   polls, pollReq>>
    /\ Enter
    /\ UNCHANGED userReq

\* a handler that asks nobody for an assignment
NobodyNeedsAssignment(caller) == FALSE

\* voteController.js 146: only callers who are not admins are checked
NeedsAssignment(caller) == Role(caller) # "admin"

\* voteController.js 140-143: VotingSession.findById
ResultsFindSession ==
    /\ res.pc = "findSession"
    /\ IF FindSessionById(res.votingSessionId) = Absent
       THEN ResultsAnswer(RespSessionNotFound)
       ELSE res' = [res EXCEPT !.pc = IF NeedsAssignment(res.caller)
                                      THEN "isAssigned" ELSE "aggregate"]
    /\ UNCHANGED <<sessions, votes, users, now, req, del, adminResp, started,
                   polls, pollReq>>
    /\ UNCHANGED http
    /\ UNCHANGED userReq

\* voteController.js 146-151: VotingSession.isUserAssignedToSession
ResultsCheckAssigned ==
    /\ res.pc = "isAssigned"
    /\ IF IsUserAssignedToSession(res.votingSessionId, res.caller)
       THEN res' = [res EXCEPT !.pc = "aggregate"]
       ELSE ResultsAnswer(RespNotAssigned)
    /\ UNCHANGED <<sessions, votes, users, now, req, del, adminResp, started,
                   polls, pollReq>>
    /\ UNCHANGED http
    /\ UNCHANGED userReq

\* Vote.js 154-176 (93-109 for the legacy results): VoteModel.aggregate
ResultsAggregate ==
    /\ res.pc = "aggregate"
    /\ LET vs == ScopeVotes(res.votingSessionId)
           gs == {IF res.votingSessionId = None THEN LegacyGroup(vs, n)
                  ELSE Group(vs, n) : n \in DistinctNames(vs)}
       IN  \E q \in SortedByCount(gs) :
                res' = [res EXCEPT !.pc = "count", !.results = q]
    /\ UNCHANGED <<sessions, votes, users, now, req, del, adminResp, started,
                   polls, pollReq>>
    /\ UNCHANGED http
    /\ UNCHANGED userReq

\* Vote.js 178 (111): VoteModel.countDocuments
ResultsCount ==
    /\ res.pc = "count"
    /\ res' = [res EXCEPT !.pc = "distinct",
                          !.totalVotes = Cardinality(ScopeVotes(res.votingSessionId))]
    /\ UNCHANGED <<sessions, votes, users, now, req, del, adminResp, started,
                   polls, pollReq>>
    /\ UNCHANGED http
    /\ UNCHANGED userReq

\* Vote.js 179-186 (112-119): VoteModel.distinct, then voteController.js 155-164
\* (175-178) answers
ResultsRespond ==
    /\ res.pc = "distinct"
    /\ ResultsAnswer(RespResults(res.votingSessionId, res.results, res.totalVotes,
                                 DistinctNames(ScopeVotes(res.votingSessionId))))
    /\ UNCHANGED <<sessions, votes, users, now, req, del, adminResp, started,
                   polls, pollReq>>
    /\ UNCHANGED http
    /\ UNCHANGED userReq

\* ---------------------------------------------------------------- admin requests
RespSessionDeleted == Resp(200, "Voting session and associated votes deleted successfully")
RespSessionUpdated == Resp(200, "Voting session updated successfully")
RespSessionCreated == Resp(201, "Voting session created successfully")
RespTitleRequired == Resp(400, "Title is required")
RespUserIdsRequired == Resp(400, "User IDs array is required")
RespUsersRemovedFromSession == Resp(200, "Users removed from voting session successfully")
RespUsersDoNotExist == Resp(400, "Some assigned users do not exist")
RespCandidateRemoved == Resp(200, "Candidate removed from voting session successfully")
RespCannotDeleteSelf == Resp(403, "Cannot delete your own account")
RespDeleteUserError == Resp(500, "Server error deleting user")
RespUserNotFound == Resp(404, "User not found")
RespCannotDeleteAdmin == Resp(403, "Cannot delete admin users")
RespUserDeleted == Resp(200, "User and associated votes deleted successfully")
RespAllVotesDeleted == Resp(200, "All votes deleted successfully")

\* votingSessionController.js 176-184: VotingSession.deleteById (findByIdAndDelete)
DeleteSessionBegin(id) ==
    /\ del.pc = "idle"
    /\ IF FindSessionById(id) = Absent
       THEN /\ adminResp' = Some(RespSessionNotFound)
            /\ UNCHANGED <<sessions, del>>
       ELSE /\ sessions' = [sessions EXCEPT ![id] = Absent]
            /\ del' = [pc |-> "cascade", id |-> id]
            /\ UNCHANGED adminResp
    /\ UNCHANGED <<votes, users, now, req, started>>
    /\ UNCHANGED <<res, polls, pollReq>>
    /\ Enter
    /\ UNCHANGED userReq

\* a cascade that removes nothing
DeleteNoVotes(sid) == votes

\* Vote.js 224-227: VoteModel.deleteMany({ votingSessionId }), the votes left
DeleteVotesBySessionId(sid) == {v \in votes : v.votingSessionId # sid}

\* votingSessionController.js 186-192: Vote.deleteVotesBySessionId
DeleteSessionCascade ==
    /\ del.pc = "cascade"
    /\ votes' = DeleteVotesBySessionId(del.id)
    /\ del' = IdleDel
    /\ adminResp' = Some(RespSessionDeleted)
    /\ UNCHANGED <<sessions, users, now, req, started>>
    /\ UNCHANGED <<res, polls, pollReq>>
    /\ UNCHANGED http
    /\ UNCHANGED userReq

\* userController.js 92-132: the handler reads the undeclared name userId at
\* line 102, which throws a ReferenceError that line 128 answers with 500
DeleteUser(admin, id) ==
    /\ admin \in StoredUserIds /\ Role(admin) = "admin"
    /\ adminResp' = Some(IF id = admin THEN RespCannotDeleteSelf ELSE RespDeleteUserError)
    /\ UNCHANGED <<sessions, votes, users, now, req, del, started>>
    /\ UNCHANGED <<res, polls, pollReq>>
    /\ Enter
    /\ UNCHANGED userReq

\* findByIdAndUpdate(id, updateData): the document with the fields of updateData
\* set to the values given; the schemas have no validator that compares fields
UpdateDoc(doc, updateData) ==
    [f \in DOMAIN doc |-> IF f \in DOMAIN updateData THEN updateData[f] ELSE doc[f]]

\* votingSessionController.js 149-173: VotingSession.updateById with the request
\* body as update
UpdateVotingSession(id, body) ==
    /\ IF FindSessionById(id) = Absent
       THEN /\ adminResp' = Some(RespSessionNotFound)
            /\ UNCHANGED sessions
       ELSE /\ sessions' = [sessions EXCEPT ![id] = Some(UpdateDoc(@[1], body))]
            /\ adminResp' = Some(RespSessionUpdated)
    /\ UNCHANGED <<votes, users, now, req, del, started>>
    /\ UNCHANGED <<res, polls, pollReq>>
    /\ Enter
    /\ UNCHANGED userReq

\* votingSessionController.js 6-55: the title check, the check that the assigned
\* users exist (User.findAll), VotingSession.create. The session starts as a
\* draft (schema default) under a new id; startDate and endDate are stored as
\* given.
CreateVotingSession(admin, title, assigned, start, end) ==
    /\ admin \in StoredUserIds
    /\ IF Trim(title) = <<>>
       THEN /\ adminResp' = Some(RespTitleRequired)
            /\ UNCHANGED sessions
       ELSE IF assigned \ StoredUserIds # {}
       THEN /\ adminResp' = Some(RespUsersDoNotExist)
            /\ UNCHANGED sessions
       ELSE /\ \E id \in SessionIds :
                /\ sessions[id] = Absent
                /\ sessions' = [sessions EXCEPT ![id] =
                                    Some(SessionDoc("draft", assigned, <<>>, start, end,
                                                    FALSE))]
            /\ adminResp' = Some(RespSessionCreated)
    /\ UNCHANGED <<votes, users, now, req, del, started>>
    /\ UNCHANGED <<res, polls, pollReq>>
    /\ Enter
    /\ UNCHANGED userReq

\* an object literal: of two properties with the same key the later one stays
ObjectLiteral(props) ==
    [k \in {props[i][1] : i \in DOMAIN props} |->
        LET last == CHOOSE i \in DOMAIN props :
                        /\ props[i][1] = k
                        /\ \A j \in DOMAIN props : props[j][1] = k => j <= i
        IN  props[last][2]]

\* $or: [{ field: { op: t } }, { field: { $exists: false } }]
DateClause(field, op, t) == [field |-> field, op |-> op, value |-> t]

MatchesDateClause(session, clause) ==
    \/ session[clause.field] = Absent
    \/ /\ session[clause.field] # Absent
       /\ IF clause.op = "$lte" THEN session[clause.field][1] <= clause.value
          ELSE session[clause.field][1] >= clause.value

\* Poll.js 394-405: the filter of getActiveSessionsForUser as written, with the
\* key $or twice
ActiveSessionsFilter(userId, t) ==
    ObjectLiteral(<< <<"assignedUsers", userId>>,
                     <<"status", "active">>,
                     <<"$or", DateClause("startDate", "$lte", t)>>,
                     <<"$or", DateClause("endDate", "$gte", t)>> >>)

\* Poll.js 392-406: VotingSessionModel.find(filter), the ids of the sessions found
GetActiveSessionsForUser(userId, t) ==
    LET filter == ActiveSessionsFilter(userId, t) IN
    {id \in SessionIds :
        /\ sessions[id] # Absent
        /\ filter["assignedUsers"] \in sessions[id][1].assignedUsers
        /\ sessions[id][1].status = filter["status"]
        /\ MatchesDateClause(sessions[id][1], filter["$or"])}

RespUserSessions(ids) ==
    [status |-> 200, message |-> "User voting sessions retrieved successfully",
     votingSessions |-> ids, totalSessions |-> Cardinality(ids)]

\* votingSessionController.js 116-146: the list is what getActiveSessionsForUser
\* found; the reads that follow add hasVoted and userVote to each entry
GetUserVotingSessions(userId) ==
    /\ userId \in StoredUserIds
    /\ adminResp' = Some(RespUserSessions(GetActiveSessionsForUser(userId, now)))
    /\ UNCHANGED <<sessions, votes, users, now, req, del, started>>
    /\ UNCHANGED <<res, polls, pollReq>>
    /\ Enter
    /\ UNCHANGED userReq

\* votingSessionController.js 234-257: the userIds check, then
\* VotingSession.removeUsersFromSession ($pull of the ids from assignedUsers)
RemoveUsersFromSession(id, userIds) ==
    /\ IF userIds = {}
       THEN /\ adminResp' = Some(RespUserIdsRequired)
            /\ UNCHANGED sessions
       ELSE IF FindSessionById(id) = Absent
       THEN /\ adminResp' = Some(RespSessionNotFound)
            /\ UNCHANGED sessions
       ELSE /\ sessions' = [sessions EXCEPT ![id] =
                                Some([@[1] EXCEPT !.assignedUsers = @ \ userIds])]
            /\ adminResp' = Some(RespUsersRemovedFromSession)
    /\ UNCHANGED <<votes, users, now, req, del, started>>
    /\ UNCHANGED <<res, polls, pollReq>>
    /\ Enter
    /\ UNCHANGED userReq

\* Poll.js 384-390 ($pull of the candidate with that _id)
RemoveCandidate(session, candidateId) ==
    [session EXCEPT !.candidates =
        SelectSeq(@, LAMBDA c : c._id # candidateId)]

\* votingSessionController.js 292-310: VotingSession.removeCandidate
RemoveCandidateFromSession(id, candidateId) ==
    /\ IF FindSessionById(id) = Absent
       THEN /\ adminResp' = Some(RespSessionNotFound)
            /\ UNCHANGED sessions
       ELSE /\ sessions' = [sessions EXCEPT ![id] = Some(RemoveCandidate(@[1], candidateId))]
            /\ adminResp' = Some(RespCandidateRemoved)
    /\ UNCHANGED <<votes, users, now, req, del, started>>
    /\ UNCHANGED <<res, polls, pollReq>>
    /\ Enter
    /\ UNCHANGED userReq

\* time passes
Tick ==
    /\ now < MaxTime
    /\ now' = now + 1
    /\ UNCHANGED <<sessions, votes, users, req, del, adminResp, started>>
    /\ UNCHANGED <<res, polls, pollReq>>
    /\ UNCHANGED http
    /\ UNCHANGED userReq

\* voteController.js 241-246: Vote.deleteAllVotes() is called without await and
\* the handler answers at once; the deleteMany is still to run
DeleteAllVotesRespond ==
    /\ del.pc = "idle"
    /\ del' = [pc |-> "deleteMany", id |-> None]
    /\ adminResp' = Some(RespAllVotesDeleted)
    /\ UNCHANGED <<sessions, votes, users, now, req, started, res, polls, pollReq>>
    /\ Enter
    /\ UNCHANGED userReq

\* Vote.js 141-144: VoteModel.deleteMany({})
DeleteAllVotesCommit ==
    /\ del.pc = "deleteMany"
    /\ votes' = {}
    /\ del' = IdleDel
    /\ UNCHANGED <<sessions, users, now, req, adminResp, started, res, polls, pollReq>>
    /\ UNCHANGED http
    /\ UNCHANGED userReq

\* ---------------------------------------------------------------- middleware
RespTokenRequired == Resp(401, "Access token required")
RespInvalidToken == Resp(403, "Invalid or expired token")
RespAuthUserNotFound == Resp(404, "User not found")
RespAdminRequired == Resp(403, "Admin access required")
RespUserRequired == Resp(403, "User access required")

\* process.env.JWT_SECRET
Secret == "secret"

\* a token as jwt.verify sees it: whether it parses as a JWT, the id in its
\* payload, the key it was signed with and its exp claim
Jwt(id, key, exp, wellFormed) ==
    [id |-> id, key |-> key, exp |-> exp, wellFormed |-> wellFormed]

\* a verification that does not look at the signature
JwtDecode(token, t) ==
    IF token.wellFormed /\ t < token.exp THEN Some(token.id) ELSE Absent

\* jwt.verify(token, process.env.JWT_SECRET): the decoded id, or nothing where
\* verify throws (malformed token, wrong signature, exp reached)
JwtVerify(token, t) ==
    IF token.wellFormed /\ token.key = Secret /\ t < token.exp
    THEN Some(token.id) ELSE Absent

\* authHeader && authHeader.split(' ')[1]; the header is given by its words
TokenOf(header) == IF Len(header) >= 2 THEN Some(header[2]) ELSE Absent

\* User.findById
FindUserById(id) == {u \in users : u._id = id}

\* the role middleware of each route (routes/users, routes/votes,
\* routes/votingSessions): requireAdmin, requireUser, or none
RouteGuard ==
    [deleteUser |-> "admin", deleteAllVotes |-> "admin", updateSession |-> "admin",
     deleteSession |-> "admin", legacyCast |-> "user", castVote |-> "none"]

Routes == DOMAIN RouteGuard

\* a role check that lets every user pass
AnyRole(user) == TRUE

\* requireAdmin: req.user && req.user.role === 'admin'
IsAdmin(user) == user.role = "admin"

\* requireUser
IsUser(user) == user.role \in {"admin", "user"}

HttpAnswer(r) == http' = [http EXCEPT !.pc = "done", !.resp = Some(r)]

\* a request for a route arrives with its Authorization header
HttpReceive(route, header) ==
    /\ http.pc \in {"idle", "done", "handled"}
    /\ http' = [IdleHttp EXCEPT !.pc = "authenticate", !.route = route, !.header = header]
    /\ UNCHANGED <<sessions, votes, users, now, req, del, adminResp, started, res, polls,
                   pollReq>>
    /\ UNCHANGED userReq

\* authenticateToken up to its await: the token of the header and jwt.verify
AuthenticateToken ==
    /\ http.pc = "authenticate"
    /\ LET token == TokenOf(http.header)
       IN  IF token = Absent THEN HttpAnswer(RespTokenRequired)
           ELSE IF JwtVerify(token[1], now) = Absent THEN HttpAnswer(RespInvalidToken)
           ELSE http' = [http EXCEPT !.pc = "findUser",
                                     !.decoded = JwtVerify(token[1], now)[1]]
    /\ UNCHANGED <<sessions, votes, users, now, req, del, adminResp, started, res, polls,
                   pollReq>>
    /\ UNCHANGED userReq

\* authenticateToken from User.findById on, then the role middleware of the
\* route; the request that passes is handed to the route handler
AuthFindUser ==
    /\ http.pc = "findUser"
    /\ LET found == FindUserById(http.decoded)
           guard == RouteGuard[http.route]
       IN  IF found = {} THEN HttpAnswer(RespAuthUserNotFound)
           ELSE LET fullUser == CHOOSE u \in found : TRUE
                IN  IF guard = "admin" /\ ~IsAdmin(fullUser)
                    THEN HttpAnswer(RespAdminRequired)
                    ELSE IF guard = "user" /\ ~IsUser(fullUser)
                    THEN HttpAnswer(RespUserRequired)
                    ELSE http' = [http EXCEPT !.pc = "handler", !.user = Some(fullUser)]
    /\ UNCHANGED <<sessions, votes, users, now, req, del, adminResp, started, res, polls,
                   pollReq>>
    /\ UNCHANGED userReq

\* ---------------------------------------------------------------- users
\* userSchema.username minlength
MinUsernameLen == 3

\* String.prototype.toLowerCase on the letters the model uses
Lower(ch) == IF ch = "A" THEN "a" ELSE IF ch = "B" THEN "b" ELSE ch
LowerCase(str) == [i \in 1..Len(str) |-> Lower(str[i])]

\* the default admin of initializeDefaultAdmin: 'admin', 'admin@voting-app.com'
AdminName == <<"a", "d", "m", "i", "n">>
AdminEmail == <<"a", "d", "m", "i", "n", "@">>

\* a creation in flight: who asked (User.create or initializeDefaultAdmin), the
\* values given, and how it ended
IdleUserReq ==
    [pc |-> "idle", kind |-> None, n |-> 0, username |-> <<>>, email |-> <<>>,
     role |-> None, outcome |-> None]

\* the _id of the n-th document built
NewUserId(n) == <<"n1", "n2", "n3", "n4", "n5">>[n]

\* new UserModel({ username, email, password, role }): the setters of userSchema
\* trim the username and trim and lowercase the email
NewUser(r) ==
    UserDoc(NewUserId(r.n), Trim(r.username), LowerCase(Trim(r.email)), r.role)

\* userSchema validators run by save()
ValidateUser(doc) ==
    /\ Len(doc.username) >= MinUsernameLen
    /\ doc.email # <<>>
    /\ doc.role \in {"user", "admin"}

\* a users collection without unique indexes
NoUserIndex(doc) == TRUE

\* the unique indexes on username and on email (userSchema unique: true)
UserIndexOk(doc) ==
    \A u \in users : u.username # doc.username /\ u.email # doc.email

UserDone(p, outcome) ==
    userReq' = [userReq EXCEPT ![p].pc = "done", ![p].outcome = outcome]

\* User.create or initializeDefaultAdmin is called
UserCreateReceive(p, kind, username, email, role) ==
    /\ userReq[p].pc \in {"idle", "done"}
    /\ started' = started + 1
    /\ userReq' = [userReq EXCEPT ![p] =
                     [IdleUserReq EXCEPT !.pc = "findOne", !.kind = kind,
                                         !.n = started + 1, !.username = username,
                                         !.email = email, !.role = role]]
    /\ UNCHANGED <<sessions, votes, users, now, req, del, adminResp, res, polls, pollReq,
                   http>>

\* User.create 53-59: findOne({ $or: [{ username }, { email }] }) and the throw;
\* initializeDefaultAdmin 103-104: findOne({ username: 'admin' }). Whether the
\* filter values pass through the schema setters depends on the mongoose
\* version, so both are possible.
UserCreateFind(p) ==
    /\ userReq[p].pc = "findOne"
    /\ LET r == userReq[p] IN
       IF r.kind = "bootstrap"
       THEN IF \E u \in users : u.username = AdminName
            THEN UserDone(p, "exists")
            ELSE userReq' = [userReq EXCEPT ![p].pc = "save"]
       ELSE \E setters \in BOOLEAN :
            LET username == IF setters THEN Trim(r.username) ELSE r.username
                email == IF setters THEN LowerCase(Trim(r.email)) ELSE r.email
            IN  IF \E u \in users : u.username = username \/ u.email = email
                THEN UserDone(p, "already exists")
                ELSE userReq' = [userReq EXCEPT ![p].pc = "save"]
    /\ UNCHANGED <<sessions, votes, users, now, req, del, adminResp, started, res, polls,
                   pollReq, http>>

\* user.save() (User.create 68, initializeDefaultAdmin 112): validation, then
\* the insert under the unique indexes; User.create throws the error,
\* initializeDefaultAdmin logs it
UserCreateSave(p) ==
    /\ userReq[p].pc = "save"
    /\ LET doc == NewUser(userReq[p]) IN
       IF ~ValidateUser(doc)
       THEN /\ UserDone(p, "ValidationError")
            /\ UNCHANGED users
       ELSE IF ~UserIndexOk(doc)
       THEN /\ UserDone(p, "E11000")
            /\ UNCHANGED users
       ELSE /\ users' = users \cup {doc}
            /\ UserDone(p, "created")
    /\ UNCHANGED <<sessions, votes, now, req, del, adminResp, started, res, polls,
                   pollReq, http>>

\* User.deleteById (findByIdAndDelete)
DeleteUserById(id) ==
    /\ users' = {u \in users : u._id # id}
    /\ UNCHANGED <<sessions, votes, now, req, del, adminResp, started, res, polls,
                   pollReq, http, userReq>>

\* ---------------------------------------------------------------- poll status
PollDoc(status, createdBy, assigned, start, end) ==
    [status |-> status, createdBy |-> createdBy, assignedUsers |-> assigned,
     startDate |-> start, endDate |-> end]

PollStatuses == {"draft", "active", "ended", "cancelled"}

RespPollNotFound == Resp(404, "Poll not found")
RespAccessDenied == Resp(403, "Access denied")
RespOnlyDraftActivated == Resp(400, "Only draft polls can be activated")
RespAlreadyEnded == Resp(400, "Poll is already ended")
RespCannotUpdatePoll == Resp(400, "Cannot update active or ended polls")
RespPollActivated == Resp(200, "Poll activated successfully")
RespPollEnded == Resp(200, "Poll ended successfully")
RespPollUpdated == Resp(200, "Poll updated successfully")
RespUsersAssigned == Resp(200, "Users assigned successfully")
RespUsersRemoved == Resp(200, "Users removed successfully")
RespPollFieldsRequired ==
    Resp(400, "Title, description, start date, and end date are required")
RespStartInPast == Resp(400, "Start date cannot be in the past")
RespEndNotAfterStart == Resp(400, "End date must be after start date")
RespPollCreated == Resp(201, "Poll created successfully")

\* Poll.findById
FindPollById(id) == IF id \in PollIds THEN polls[id] ELSE Absent

\* pollController: what the handler answers after Poll.findById, if it stops there
\* (activatePoll 397-410, endPoll 434-447, updatePoll 245-263)
PollChecks(op, caller, poll) ==
    IF poll = Absent THEN Some(RespPollNotFound)
    ELSE IF Role(caller) # "admin" /\ poll[1].createdBy # caller
        THEN Some(RespAccessDenied)
    ELSE IF op = "activate" /\ poll[1].status # "draft"
        THEN Some(RespOnlyDraftActivated)
    ELSE IF op = "end" /\ poll[1].status = "ended" THEN Some(RespAlreadyEnded)
    ELSE IF op = "update" /\ poll[1].status # "draft" /\ Role(caller) # "admin"
        THEN Some(RespCannotUpdatePoll)
    ELSE Absent

\* the document the handler writes: Poll.activatePoll, Poll.endPoll,
\* Poll.updatePoll (the request body as update), Poll.assignUsers ($addToSet) and
\* Poll.removeUsers ($pullAll)
PollUpdate(doc, op, body) ==
    IF op = "activate" THEN UpdateDoc(doc, [status |-> "active"])
    ELSE IF op = "end" THEN UpdateDoc(doc, [status |-> "ended"])
    ELSE IF op = "update" THEN UpdateDoc(doc, body)
    ELSE IF op = "assign" THEN [doc EXCEPT !.assignedUsers = @ \cup body.userIds]
    ELSE [doc EXCEPT !.assignedUsers = @ \ body.userIds]

PollAnswer(op) ==
    IF op = "activate" THEN RespPollActivated
    ELSE IF op = "end" THEN RespPollEnded
    ELSE IF op = "update" THEN RespPollUpdated
    ELSE IF op = "assign" THEN RespUsersAssigned ELSE RespUsersRemoved

\* activatePoll, endPoll, updatePoll, assignUsers, removeUsers up to their second
\* await: the userIds check of assignUsers and removeUsers (321-323, 358-360),
\* Poll.findById and the checks on the poll read
PollFindAndCheck(op, caller, id, body) ==
    /\ pollReq.pc = "idle"
    /\ caller \in StoredUserIds
    /\ LET bad == IF op \in {"assign", "remove"} /\ body.userIds = {}
                  THEN Some(RespUserIdsRequired)
                  ELSE PollChecks(op, caller, FindPollById(id))
       IN  IF bad # Absent
           THEN /\ adminResp' = bad
                /\ UNCHANGED pollReq
           ELSE /\ pollReq' = [pc |-> "write", op |-> op, caller |-> caller,
                               id |-> id, body |-> body]
                /\ UNCHANGED adminResp
    /\ UNCHANGED <<sessions, votes, users, now, req, del, started, res, polls>>
    /\ UNCHANGED http
    /\ UNCHANGED userReq

\* the findByIdAndUpdate of Poll.activatePoll, Poll.endPoll, Poll.updatePoll,
\* Poll.assignUsers, Poll.removeUsers, and the handler's answer
PollWrite ==
    /\ pollReq.pc = "write"
    /\ polls' = [polls EXCEPT ![pollReq.id] =
                    IF @ = Absent THEN Absent
                    ELSE Some(PollUpdate(@[1], pollReq.op, pollReq.body))]
    /\ adminResp' = Some(PollAnswer(pollReq.op))
    /\ pollReq' = IdlePollReq
    /\ UNCHANGED <<sessions, votes, users, now, req, del, started, res>>
    /\ UNCHANGED http
    /\ UNCHANGED userReq

\* pollController (part_007) 6-79: the required fields, the two date checks, the
\* check that the assigned users exist (User.findAll), Poll.createPoll. title,
\* start and end are as sent: an empty title or a missing date is refused.
CreatePoll(admin, title, assigned, start, end) ==
    /\ admin \in StoredUserIds
    /\ IF title = <<>> \/ start = Absent \/ end = Absent
       THEN /\ adminResp' = Some(RespPollFieldsRequired)
            /\ UNCHANGED polls
       ELSE IF start[1] < now
       THEN /\ adminResp' = Some(RespStartInPast)
            /\ UNCHANGED polls
       ELSE IF end[1] <= start[1]
       THEN /\ adminResp' = Some(RespEndNotAfterStart)
            /\ UNCHANGED polls
       ELSE IF assigned \ StoredUserIds # {}
       THEN /\ adminResp' = Some(RespUsersDoNotExist)
            /\ UNCHANGED polls
       ELSE /\ \E id \in PollIds :
                /\ polls[id] = Absent
                /\ polls' = [polls EXCEPT ![id] =
                                Some(PollDoc("draft", admin, assigned, start[1], end[1]))]
            /\ adminResp' = Some(RespPollCreated)
    /\ UNCHANGED <<sessions, votes, users, now, req, del, started, res, pollReq>>
    /\ UNCHANGED http
    /\ UNCHANGED userReq

\* ---------------------------------------------------------------- specifications
\* Spec: concurrent requests. Session s1 is active and open to both users, s2 is
\* an id no session has; cast requests of two slots, a session deletion and user
\* deletions interleave at every await. The second slot is taken only while the
\* first is busy (the slots are interchangeable).
Init ==
    /\ sessions = [id \in SessionIds |->
                     IF id = "s1"
                     THEN Some(SessionDoc("active", UserIds, <<Cand("c1"), Cand("c2")>>,
                                          Absent, Absent, FALSE))
                     ELSE Absent]
    /\ votes = {}
    /\ users = {SeedUser(id) : id \in UserIds}
    /\ now = 0
    /\ req = [p \in Procs |-> IdleReq]
    /\ del = IdleDel
    /\ adminResp = Absent
    /\ started = 0
    /\ res = IdleRes
    /\ polls = [id \in PollIds |-> Absent]
    /\ pollReq = IdlePollReq
    /\ http = IdleHttp
    /\ userReq = [p \in Procs |-> IdleUserReq]

Next ==
    \/ \E p \in Procs, u \in UserIds, sid \in SessionIds, name \in {NameA, NameB} :
            /\ started < MaxCasts
            /\ p = 1 \/ InFlight(1)
            /\ CastReceive(p, u, sid, name, None, FALSE)
    \/ \E p \in Procs : CastFindSession(p)
    \/ \E p \in Procs : CastCheckSession(p)
    \/ \E p \in Procs : CastFindExisting(p)
    \/ \E p \in Procs : CastSave(p)
    \/ \E p \in Procs : CastRespond(p)
    \/ \E id \in SessionIds : DeleteSessionBegin(id)
    \/ DeleteSessionCascade
    \/ \E id \in UserIds : DeleteUser("a1", id)

Spec == Init /\ [][Next]_vars

\* SpecSeq: one request at a time, over the session configurations and request
\* bodies. Session s1 starts in any status, with or without user u1 assigned, a
\* time window, the custom-candidate flag, and with or without candidate c2;
\* between cast requests the clock moves, candidate c2 may be removed and the
\* session may be closed.
InitSeq ==
    /\ \E status \in {"draft", "active", "closed"}, assigned \in {{}, {"u1"}},
          window \in {<<Absent, Absent>>, <<Some(1), Some(2)>>}, allowNew \in BOOLEAN,
          cands \in {<<Cand("c1"), Cand("c2")>>, <<Cand("c1")>>} :
            sessions = [id \in SessionIds |->
                          IF id = "s1"
                          THEN Some(SessionDoc(status, assigned, cands,
                                               window[1], window[2], allowNew))
                          ELSE Absent]
    /\ votes = {}
    /\ users = {SeedUser(id) : id \in UserIds}
    /\ now = 0
    /\ req = [p \in Procs |-> IdleReq]
    /\ del = IdleDel
    /\ adminResp = Absent
    /\ started = 0
    /\ res = IdleRes
    /\ polls = [id \in PollIds |-> Absent]
    /\ pollReq = IdlePollReq
    /\ http = IdleHttp
    /\ userReq = [p \in Procs |-> IdleUserReq]

NextSeq ==
    \/ \E u \in UserIds, sid \in SessionIds \cup {None}, name \in {NameB, NameBlank},
          cid \in {"c2", None}, custom \in BOOLEAN :
            /\ started < MaxSeqCasts
            /\ Quiet
            /\ CastReceive(1, u, sid, name, cid, custom)
    \/ CastFindSession(1)
    \/ CastCheckSession(1)
    \/ CastFindExisting(1)
    \/ CastSave(1)
    \/ CastRespond(1)
    \/ Quiet /\ UpdateVotingSession("s1", [status |-> "closed"])
    \/ Quiet /\ RemoveCandidateFromSession("s1", "c2")
    \/ Quiet /\ Tick

SpecSeq == InitSeq /\ [][NextSeq]_vars

\* SpecRes: results requests against stored ballots. Sessions s1 and s2 exist,
\* user u1 is assigned to both and u2 to none; the votes collection starts with
\* up to three ballots in s1 and up to one in s2. A results request runs while
\* a cast, a session deletion, a deletion of all votes and user deletions are
\* handled.
NameAB == <<"A", "B">>

StoredBallot(id, u, sid, name, custom) ==
    [_id |-> id, userId |-> u, votingSessionId |-> sid, candidateId |-> None,
     candidateName |-> name, isCustomCandidate |-> custom, timestamp |-> 0]

\* what the stored ballot of a voter in s1 may be
BallotChoices(u) ==
    IF u = "u1" THEN {Absent, Some(<<NameA, FALSE>>), Some(<<Trim(NameB), FALSE>>)}
    ELSE IF u = "u2" THEN {Absent, Some(<<NameA, FALSE>>), Some(<<Trim(NameB), TRUE>>)}
    ELSE {Absent, Some(<<Trim(NameB), TRUE>>), Some(<<NameAB, TRUE>>)}

BallotId(u) == IF u = "u1" THEN 11 ELSE IF u = "u2" THEN 12 ELSE 13

InitRes ==
    /\ sessions = [id \in SessionIds |->
                     Some(SessionDoc("active", {"u1"}, <<Cand("c1"), Cand("c2")>>,
                                     Absent, Absent, TRUE))]
    /\ \E c \in [{"u1", "u2", "a1"} -> UNION {BallotChoices(u) : u \in {"u1", "u2", "a1"}}],
          other \in BOOLEAN :
            /\ \A u \in DOMAIN c : c[u] \in BallotChoices(u)
            /\ votes = {StoredBallot(BallotId(u), u, "s1", c[u][1][1], c[u][1][2]) :
                            u \in {v \in DOMAIN c : c[v] # Absent}}
                       \cup (IF other THEN {StoredBallot(14, "u2", "s2", NameA, FALSE)}
                             ELSE {})
    /\ users = {SeedUser(id) : id \in {"u1", "u2", "a1", "a2"}}
    /\ now = 0
    /\ req = [p \in Procs |-> IdleReq]
    /\ del = IdleDel
    /\ adminResp = Absent
    /\ started = 0
    /\ res = IdleRes
    /\ polls = [id \in PollIds |-> Absent]
    /\ pollReq = IdlePollReq
    /\ http = IdleHttp
    /\ userReq = [p \in Procs |-> IdleUserReq]

NextRes ==
    \/ \E caller \in {"u1", "u2", "a1"}, sid \in {"s1", "s2", "s9"} :
            ResultsReceive(caller, sid)
    \/ LegacyResultsReceive("a1")
    \/ ResultsFindSession
    \/ ResultsCheckAssigned
    \/ ResultsAggregate
    \/ ResultsCount
    \/ ResultsRespond
    \/ started < MaxResCasts /\ CastReceive(1, "u1", "s1", NameA, None, FALSE)
    \/ CastFindSession(1)
    \/ CastCheckSession(1)
    \/ CastFindExisting(1)
    \/ CastSave(1)
    \/ CastRespond(1)
    \/ \E id \in {"s1", "s9"} : DeleteSessionBegin(id)
    \/ DeleteSessionCascade
    \/ DeleteAllVotesRespond
    \/ DeleteAllVotesCommit
    \/ \E id \in {"u1", "a1", "a2", "u9"} : DeleteUser("a1", id)

SpecRes == InitRes /\ [][NextRes]_vars

\* SpecStatus: the status of one session and one poll under the handlers that
\* write it.
InitStatus ==
    /\ \E status \in {"draft", "active", "closed"} :
            sessions = [id \in SessionIds |->
                          IF id = "s1"
                          THEN Some(SessionDoc(status, UserIds, <<Cand("c1"), Cand("c2")>>,
                                               Absent, Absent, FALSE))
                          ELSE Absent]
    /\ \E status \in PollStatuses : polls = [id \in PollIds |-> Some(PollDoc(status, "a2", {"u1"}, 1, 2))]
    /\ votes = {}
    /\ users = {SeedUser(id) : id \in {"u1", "a1", "a2"}}
    /\ now = 0
    /\ req = [p \in Procs |-> IdleReq]
    /\ del = IdleDel
    /\ adminResp = Absent
    /\ started = 0
    /\ res = IdleRes
    /\ pollReq = IdlePollReq
    /\ http = IdleHttp
    /\ userReq = [p \in Procs |-> IdleUserReq]

NextStatus ==
    \/ \E id \in SessionIds, status \in {"draft", "active", "closed"} :
            UpdateVotingSession(id, [status |-> status])
    \/ \E op \in {"activate", "end"}, caller \in {"u1", "a1"}, id \in PollIds \cup {"p9"} :
            PollFindAndCheck(op, caller, id, NoBody)
    \/ \E caller \in {"u1", "a1"}, id \in PollIds,
          body \in {[status |-> status] : status \in PollStatuses}
                    \cup {[createdBy |-> "u1"], [endDate |-> 1]} :
            PollFindAndCheck("update", caller, id, body)
    \/ \E op \in {"assign", "remove"}, caller \in {"u1", "a1"}, id \in PollIds,
          userIds \in {{}, {"u1"}, {"a1"}} :
            PollFindAndCheck(op, caller, id, [userIds |-> userIds])
    \/ PollWrite

SpecStatus == InitStatus /\ [][NextStatus]_vars

\* SpecDates: sessions and polls are created and updated with time windows, and
\* user u1 lists the sessions open to them, while time passes.
DateInputs == {Absent, Some(1), Some(2)}

InitDates ==
    /\ sessions = [id \in SessionIds |-> Absent]
    /\ polls = [id \in PollIds |-> Absent]
    /\ votes = {}
    /\ users = {SeedUser(id) : id \in UserIds}
    /\ now = 0
    /\ req = [p \in Procs |-> IdleReq]
    /\ del = IdleDel
    /\ adminResp = Absent
    /\ started = 0
    /\ res = IdleRes
    /\ pollReq = IdlePollReq
    /\ http = IdleHttp
    /\ userReq = [p \in Procs |-> IdleUserReq]

NextDates ==
    \/ \E title \in {NameA, NameBlank}, assigned \in {{"u1"}, {"u9"}},
          start \in DateInputs, end \in DateInputs :
            CreateVotingSession("a1", title, assigned, start, end)
    \/ \E id \in SessionIds,
          body \in {[status |-> "active"], [startDate |-> Some(2), endDate |-> Some(1)]} :
            UpdateVotingSession(id, body)
    \/ \E title \in {NameA, <<>>}, start \in DateInputs, end \in DateInputs :
            CreatePoll("a1", title, {"u1"}, start, end)
    \/ GetUserVotingSessions("u1")
    \/ Tick

SpecDates == InitDates /\ [][NextDates]_vars

\* SpecLegacy: users cast ballots in the legacy global scope (POST /votes), two
\* requests at a time.
InitLegacy ==
    /\ sessions = [id \in SessionIds |-> Absent]
    /\ polls = [id \in PollIds |-> Absent]
    /\ votes = {}
    /\ users = {SeedUser(id) : id \in UserIds}
    /\ now = 0
    /\ req = [p \in Procs |-> IdleReq]
    /\ del = IdleDel
    /\ adminResp = Absent
    /\ started = 0
    /\ res = IdleRes
    /\ pollReq = IdlePollReq
    /\ http = IdleHttp
    /\ userReq = [p \in Procs |-> IdleUserReq]

NextLegacy ==
    \/ \E p \in Procs, u \in UserIds, name \in {NameA, NameB, NameBlank} :
            /\ started < MaxLegacyCasts
            /\ LegacyCastReceive(p, u, name)
    \/ \E p \in Procs : LegacyCastFindExisting(p)
    \/ \E p \in Procs : LegacyCastSave(p)

SpecLegacy == InitLegacy /\ [][NextLegacy]_vars

\* SpecAuth: requests arrive with an Authorization header, pass authenticateToken
\* and the role middleware of their route, and those that pass run the route's
\* handler. Session s1 is active and holds a ballot of u1.
Tokens ==
    UNION {{Jwt(id, Secret, 1, TRUE), Jwt(id, "other", 1, TRUE),
            Jwt(id, Secret, 0, TRUE), Jwt(id, Secret, 1, FALSE)} : id \in {"u1", "a1"}}
        \cup {Jwt("u9", Secret, 1, TRUE)}

Headers == {<<>>, <<"Bearer">>} \cup {<<"Bearer", token>> : token \in Tokens}

\* the request handed to the handler of the route, and req.user._id
Via(route) == http.pc = "handler" /\ http.route = route
Caller == http.user[1]._id

InitAuth ==
    /\ sessions = [id \in SessionIds |->
                     IF id = "s1"
                     THEN Some(SessionDoc("active", UserIds, <<Cand("c1"), Cand("c2")>>,
                                          Absent, Absent, FALSE))
                     ELSE Absent]
    /\ polls = [id \in PollIds |-> Absent]
    /\ votes = {StoredBallot(11, "u1", "s1", NameA, FALSE)}
    /\ users = {SeedUser(id) : id \in UserIds}
    /\ now = 0
    /\ req = [p \in Procs |-> IdleReq]
    /\ del = IdleDel
    /\ adminResp = Absent
    /\ started = 0
    /\ res = IdleRes
    /\ pollReq = IdlePollReq
    /\ http = IdleHttp
    /\ userReq = [p \in Procs |-> IdleUserReq]

NextAuth ==
    \/ \E route \in Routes, header \in Headers :
            /\ route \in {"castVote", "legacyCast"} => started < MaxAuthCasts
            /\ HttpReceive(route, header)
    \/ AuthenticateToken
    \/ AuthFindUser
    \/ Via("deleteUser") /\ DeleteUser(Caller, "u1")
    \/ Via("deleteAllVotes") /\ DeleteAllVotesRespond
    \/ DeleteAllVotesCommit
    \/ Via("updateSession") /\ UpdateVotingSession("s1", [status |-> "closed"])
    \/ Via("deleteSession") /\ DeleteSessionBegin("s1")
    \/ DeleteSessionCascade
    \/ Via("legacyCast") /\ LegacyCastReceive(1, Caller, NameA)
    \/ LegacyCastFindExisting(1)
    \/ LegacyCastSave(1)
    \/ Via("castVote") /\ CastReceive(1, Caller, "s1", NameB, None, FALSE)
    \/ CastFindSession(1)
    \/ CastCheckSession(1)
    \/ CastFindExisting(1)
    \/ CastSave(1)
    \/ CastRespond(1)

SpecAuth == InitAuth /\ [][NextAuth]_vars

\* SpecUsers: users are created (User.create, two calls at a time, and the
\* bootstrap of the default admin) and deleted, starting from no users.
Bob == <<"b", "o", "b">>

InitUsers ==
    /\ sessions = [id \in SessionIds |-> Absent]
    /\ polls = [id \in PollIds |-> Absent]
    /\ votes = {}
    /\ users = {}
    /\ now = 0
    /\ req = [p \in Procs |-> IdleReq]
    /\ del = IdleDel
    /\ adminResp = Absent
    /\ started = 0
    /\ res = IdleRes
    /\ pollReq = IdlePollReq
    /\ http = IdleHttp
    /\ userReq = [p \in Procs |-> IdleUserReq]

NextUsers ==
    \/ \E p \in Procs, username \in {Bob, Bob \o <<" ">>, AdminName, <<"b", "o">>},
          email \in {<<"B", "@">>, <<"b", "@">>, AdminEmail} :
            /\ started < MaxCreates
            /\ UserCreateReceive(p, "create", username, email, "user")
    \/ \E p \in Procs :
            /\ started < MaxCreates
            /\ UserCreateReceive(p, "bootstrap", AdminName, AdminEmail, "admin")
    \/ \E p \in Procs : UserCreateFind(p)
    \/ \E p \in Procs : UserCreateSave(p)
    \/ \E id \in UserIdsOf(users) : DeleteUserById(id)

SpecUsers == InitUsers /\ [][NextUsers]_vars

\* SpecRace: casts in the active session s1 run while an admin closes the
\* session and removes user u1 from it.
InitRace ==
    /\ sessions = [id \in SessionIds |->
                     IF id = "s1"
                     THEN Some(SessionDoc("active", UserIds, <<Cand("c1"), Cand("c2")>>,
                                          Absent, Absent, FALSE))
                     ELSE Absent]
    /\ polls = [id \in PollIds |-> Absent]
    /\ votes = {}
    /\ users = {SeedUser(id) : id \in UserIds}
    /\ now = 0
    /\ req = [p \in Procs |-> IdleReq]
    /\ del = IdleDel
    /\ adminResp = Absent
    /\ started = 0
    /\ res = IdleRes
    /\ pollReq = IdlePollReq
    /\ http = IdleHttp
    /\ userReq = [p \in Procs |-> IdleUserReq]

NextRace ==
    \/ \E p \in Procs, u \in UserIds, name \in {NameA, NameB}, cid \in {"c2", None} :
            /\ started < MaxRaceCasts
            /\ CastReceive(p, u, "s1", name, cid, FALSE)
    \/ \E p \in Procs : CastFindSession(p)
    \/ \E p \in Procs : CastCheckSession(p)
    \/ \E p \in Procs : CastFindExisting(p)
    \/ \E p \in Procs : CastSave(p)
    \/ \E p \in Procs : CastRespond(p)
    \/ UpdateVotingSession("s1", [status |-> "closed"])
    \/ RemoveUsersFromSession("s1", {"u1"})

SpecRace == InitRace /\ [][NextRace]_vars

\* ================================================================ properties
\* What a request asks for and what the stores hold, stated on the stores
\* themselves. In SpecSeq a request runs alone, so while it is in flight the
\* stores are those it was received with, apart from its own ballot.

\* the candidate name has a character that is not white space
HasName(r) == \E i \in 1..Len(r.candidateName) : r.candidateName[i] # " "

SessionExists(r) ==
    r.votingSessionId \in SessionIds /\ sessions[r.votingSessionId] # Absent

StoredSession(r) == sessions[r.votingSessionId][1]

Assigned(r) == r.userId \in StoredSession(r).assignedUsers

Active(r) == StoredSession(r).status = "active"

BeforeStart(r) ==
    /\ StoredSession(r).startDate # Absent
    /\ now < StoredSession(r).startDate[1]

AfterEnd(r) ==
    /\ StoredSession(r).endDate # Absent
    /\ now > StoredSession(r).endDate[1]

AtEnd(r) ==
    /\ StoredSession(r).endDate # Absent
    /\ now = StoredSession(r).endDate[1]

CustomRefused(r) ==
    r.isCustomCandidate /\ ~StoredSession(r).allowNewCandidates

UnknownCandidate(r) ==
    /\ ~r.isCustomCandidate
    /\ r.candidateId # None
    /\ r.candidateId \notin
         {StoredSession(r).candidates[i]._id : i \in DOMAIN StoredSession(r).candidates}

\* a ballot of the request's user in the request's session, cast by an earlier request
VotedBefore(r) ==
    \E v \in votes : /\ v.userId = r.userId
                     /\ v.votingSessionId = r.votingSessionId
                     /\ v._id # r.n

\* the ballot this request wrote is in the store
OwnBallotStored(r) == \E v \in votes : v._id = r.n

\* this step answers the request in slot p
Answered(p) == InFlight(p) /\ req'[p].pc = "done"

AnswerOf(p) == req'[p].resp[1]

Done(p) == req[p].pc = "done"

\* the request reaches the session checks: it names an existing session and a candidate
ReachesSessionChecks(r) == HasName(r) /\ SessionExists(r)

\* the request passes every check before the duplicate check
PassesSessionChecks(r) ==
    /\ ReachesSessionChecks(r)
    /\ Assigned(r)
    /\ Active(r)
    /\ ~BeforeStart(r)
    /\ ~AfterEnd(r)
    /\ ~CustomRefused(r)
    /\ ~UnknownCandidate(r)

\* ---------------------------------------------------------------- C1
\* C1: in every reachable state the ballot store holds at most one ballot for
\* each (userId, votingSessionId) pair, whatever the interleaving of cast
\* requests, session deletions and user deletions.
C1_OneBallotPerUserAndSession ==
    \A v, w \in votes :
        (v.userId = w.userId /\ v.votingSessionId = w.votingSessionId) => v = w

\* a request passed the pre-check, then the index refused its ballot because
\* another request's ballot of the same pair had been stored meanwhile
C1_IndexRefusedSecondBallot ==
    \E p \in Procs :
        /\ Done(p)
        /\ req[p].vote # Absent
        /\ req[p].resp = Some(RespServerError)
        /\ VotedBefore(req[p])

\* ---------------------------------------------------------------- C2
\* C2: when two cast requests of the same user for the same existing session,
\* with different candidates, both pass the pre-check (they raced), one is
\* answered 201 and the other 409; the loser is never answered 500.
C2_RaceLoserAnswersConflict ==
    \A p, q \in Procs :
        ( /\ p # q
          /\ Done(p) /\ Done(q)
          /\ req[p].userId = req[q].userId
          /\ req[p].votingSessionId = req[q].votingSessionId
          /\ Trim(req[p].candidateName) # Trim(req[q].candidateName)
          /\ req[p].vote # Absent /\ req[q].vote # Absent
          /\ SessionExists(req[p]) )
        => {req[p].resp[1].status, req[q].resp[1].status} = {201, 409}

\* ---------------------------------------------------------------- C4
\* C4: a cast request that is not answered 201 has written nothing: every step
\* of a cast request leaves the session store and the user store unchanged and
\* adds at most the request's own ballot, and the request is answered 201 exactly
\* when it has added that ballot.
C4_OnlyAnswered201Writes ==
    [][\A p \in Procs :
        /\ (req'[p] # req[p]) =>
              /\ sessions' = sessions
              /\ users' = users
              /\ \/ votes' = votes
                 \/ /\ req[p].pc = "save"
                    /\ votes' = votes \cup {req[p].vote[1]}
                    /\ req[p].vote[1] \notin votes
        /\ Answered(p) =>
              ((AnswerOf(p) = RespVoteCast) <=> (req[p].pc = "populate"))
      ]_vars

\* ---------------------------------------------------------------- C5
\* the answer of the earliest failing check, in the order the handler applies
\* them: session id given, candidate name not blank, session exists, caller
\* assigned, status active, time window, custom candidate allowed, candidate
\* identity known, no earlier ballot
CodeOrderAnswer(r) ==
    IF r.votingSessionId = None THEN RespSessionIdRequired
    ELSE IF ~HasName(r) THEN RespNameRequired
    ELSE IF ~SessionExists(r) THEN RespSessionNotFound
    ELSE IF ~Assigned(r) THEN RespNotAssigned
    ELSE IF ~Active(r) THEN RespNotActive
    ELSE IF BeforeStart(r) THEN RespNotStarted
    ELSE IF AfterEnd(r) THEN RespHasEnded
    ELSE IF CustomRefused(r) THEN RespCustomNotAllowed
    ELSE IF UnknownCandidate(r) THEN RespCandidateNotFound
    ELSE IF VotedBefore(r) THEN RespAlreadyVoted
    ELSE RespVoteCast

\* the same, in the order C5 states: the blank-name check comes seventh
StatedOrderAnswer(r) ==
    IF ~SessionExists(r) THEN RespSessionNotFound
    ELSE IF ~Assigned(r) THEN RespNotAssigned
    ELSE IF ~Active(r) THEN RespNotActive
    ELSE IF BeforeStart(r) THEN RespNotStarted
    ELSE IF AfterEnd(r) THEN RespHasEnded
    ELSE IF CustomRefused(r) THEN RespCustomNotAllowed
    ELSE IF UnknownCandidate(r) THEN RespCandidateNotFound
    ELSE IF ~HasName(r) THEN RespNameRequired
    ELSE IF VotedBefore(r) THEN RespAlreadyVoted
    ELSE RespVoteCast

\* C5 as stated: every cast request that names a session is answered with the
\* error of the earliest failing check in the order session exists, caller
\* assigned, status, time window, custom candidate allowed, candidate identity,
\* name not blank, duplicate ballot; so a blank name at a session that does not
\* exist is answered 404 and at a session the caller is not assigned to 403.
C5_StatedOrder ==
    [][\A p \in Procs :
        (Answered(p) /\ req[p].votingSessionId # None)
            => AnswerOf(p) = StatedOrderAnswer(req[p])
      ]_vars

\* C5 as amended: the checks are applied in the order session id given,
\* trimmed candidate name not empty, session exists, caller assigned, status
\* active, time window, custom candidate allowed, candidate identity known,
\* duplicate ballot, and a request is answered with the error of the earliest
\* failing check in that order (201 when none fails).
C5_CodeOrder ==
    [][\A p \in Procs : Answered(p) => AnswerOf(p) = CodeOrderAnswer(req[p])]_vars

\* a blank candidate name at a session that does not exist was answered
\* 'Candidate name is required'
C5_BlankNameAtMissingSession ==
    /\ Done(1)
    /\ ~HasName(req[1])
    /\ req[1].votingSessionId = "s2"
    /\ ~SessionExists(req[1])
    /\ req[1].resp = Some(RespNameRequired)

\* ---------------------------------------------------------------- C3
\* C3: when a ballot of the caller already exists in the session, a cast
\* request of that caller for that session (whatever candidate it names)
\* writes nothing, so the existing ballot stays as it is, and is never
\* answered 201; when it passes the checks made before the duplicate check
\* it is answered 409 'User has already voted in this voting session'.
C3_SecondCastConflicts ==
    [][\A p \in Procs :
        (InFlight(p) /\ VotedBefore(req[p])) =>
            /\ votes' = votes
            /\ Answered(p) =>
                /\ AnswerOf(p) # RespVoteCast
                /\ PassesSessionChecks(req[p]) => AnswerOf(p) = RespAlreadyVoted
      ]_vars

\* the second request of a voter, naming other candidate data than the stored
\* ballot, was answered 409 and the first ballot is still the only one
C3_SecondCastAnswered409 ==
    /\ Done(1)
    /\ req[1].n = 2
    /\ req[1].resp = Some(RespAlreadyVoted)
    /\ \E v \in votes :
        /\ v._id = 1
        /\ v.userId = req[1].userId
        /\ v.votingSessionId = req[1].votingSessionId
        /\ v.isCustomCandidate # req[1].isCustomCandidate
        /\ votes = {v}

C7_InactiveRefused ==
    [][\A p \in Procs :
        (InFlight(p) /\ SessionExists(req[p]) /\ ~Active(req[p])) =>
            /\ votes' = votes
            /\ Answered(p) =>
                /\ AnswerOf(p) # RespVoteCast
                /\ Assigned(req[p]) => AnswerOf(p).status = 400
                /\ (Assigned(req[p]) /\ HasName(req[p]))
                        => AnswerOf(p) = RespNotActive
      ]_vars

\* an assigned caller was answered 'not active' at a session closed by the
\* administrator, with a custom candidate the session would not allow
C7_ClosedAnswered400 ==
    /\ Done(1)
    /\ req[1].resp = Some(RespNotActive)
    /\ Assigned(req[1])
    /\ StoredSession(req[1]).status = "closed"
    /\ adminResp = Some(RespSessionUpdated)
    /\ req[1].isCustomCandidate
    /\ votes = {}

\* ---------------------------------------------------------------- C8
\* a request that reaches the time-window check: it carries a name, the
\* session exists and is active, the caller is assigned
ReachesWindowCheck(r) ==
    HasName(r) /\ SessionExists(r) /\ Assigned(r) /\ Active(r)

\* C8 as stated: a cast is accepted only when start <= now < end; before the
\* start it fails 'has not started yet', and from the end on, the instant
\* equal to the end included, it fails 'has ended'.
C8_EndExclusive ==
    [][\A p \in Procs :
        (Answered(p) /\ ReachesWindowCheck(req[p])) =>
            /\ BeforeStart(req[p]) => AnswerOf(p) = RespNotStarted
            /\ (~BeforeStart(req[p]) /\ (AtEnd(req[p]) \/ AfterEnd(req[p])))
                    => AnswerOf(p) = RespHasEnded
      ]_vars

\* C8 as amended: a cast is accepted only when start <= now <= end; before
\* the start it fails 'has not started yet' and strictly after the end it
\* fails 'has ended', in both cases writing no ballot; at the instant equal
\* to the end the window check passes, so a cast that passes the other checks
\* is answered 201.
C8_EndInclusive ==
    [][\A p \in Procs :
        (InFlight(p) /\ ReachesWindowCheck(req[p])) =>
            /\ (BeforeStart(req[p]) \/ AfterEnd(req[p])) => votes' = votes
            /\ Answered(p) =>
                /\ BeforeStart(req[p]) => AnswerOf(p) = RespNotStarted
                /\ (~BeforeStart(req[p]) /\ AfterEnd(req[p]))
                        => AnswerOf(p) = RespHasEnded
                /\ (AtEnd(req[p]) /\ ~BeforeStart(req[p])
                        /\ ~CustomRefused(req[p]) /\ ~UnknownCandidate(req[p])
                        /\ ~VotedBefore(req[p]))
                        => AnswerOf(p) = RespVoteCast
      ]_vars

\* a cast made at the instant equal to the session's end was answered 201 and
\* its ballot, stamped with that instant, is stored
C8_AcceptedAtEnd ==
    /\ Done(1)
    /\ req[1].resp = Some(RespVoteCast)
    /\ SessionExists(req[1])
    /\ \E v \in votes :
        /\ v._id = req[1].n
        /\ StoredSession(req[1]).endDate = Some(v.timestamp)

\* ---------------------------------------------------------------- C9
\* a request that reaches the custom-candidate check
ReachesCustomCheck(r) ==
    ReachesWindowCheck(r) /\ ~BeforeStart(r) /\ ~AfterEnd(r)

\* C9: a cast with isCustomCandidate true at a session whose
\* allowNewCandidates is false writes no ballot and is never answered 201; an
\* assigned caller is answered 400, and a request that passes the checks made
\* earlier is answered 'Custom candidates are not allowed in this voting
\* session'. At a session whose allowNewCandidates is true such a cast, when
\* it passes the other checks and the caller has no ballot there, is answered
\* 201 and its ballot is stored with isCustomCandidate true.
C9_CustomCandidate ==
    [][\A p \in Procs :
        (InFlight(p) /\ SessionExists(req[p]) /\ req[p].isCustomCandidate) =>
            /\ CustomRefused(req[p]) =>
                /\ votes' = votes
                /\ Answered(p) =>
                    /\ AnswerOf(p) # RespVoteCast
                    /\ Assigned(req[p]) => AnswerOf(p).status = 400
                    /\ ReachesCustomCheck(req[p])
                            => AnswerOf(p) = RespCustomNotAllowed
            /\ (Answered(p) /\ ~CustomRefused(req[p])
                    /\ ReachesCustomCheck(req[p]) /\ ~VotedBefore(req[p])) =>
                /\ AnswerOf(p) = RespVoteCast
                /\ \E v \in votes' :
                    /\ v._id = req[p].n
                    /\ v.userId = req[p].userId
                    /\ v.votingSessionId = req[p].votingSessionId
                    /\ v.candidateName = Trim(req[p].candidateName)
                    /\ v.isCustomCandidate
      ]_vars

\* a custom candidate was refused at a session that does not allow them
C9_CustomRefusedAnswered400 ==
    /\ Done(1)
    /\ req[1].isCustomCandidate
    /\ SessionExists(req[1])
    /\ ~StoredSession(req[1]).allowNewCandidates
    /\ req[1].resp = Some(RespCustomNotAllowed)
    /\ votes = {}

\* ---------------------------------------------------------------- C10
\* C10: a cast that is not custom and names a candidate identity the session
\* does not hold (never held, or removed before the cast) writes no ballot
\* and is never answered 201; an assigned caller is answered 400, and a
\* request that passes the checks made earlier is answered 'Candidate not
\* found in this voting session'.
C10_UnknownCandidateRefused ==
    [][\A p \in Procs :
        (InFlight(p) /\ SessionExists(req[p]) /\ UnknownCandidate(req[p])) =>
            /\ votes' = votes
            /\ Answered(p) =>
                /\ AnswerOf(p) # RespVoteCast
                /\ Assigned(req[p]) => AnswerOf(p).status = 400
                /\ ReachesCustomCheck(req[p])
                        => AnswerOf(p) = RespCandidateNotFound
      ]_vars

\* the candidate named was removed from the session before the cast, and the
\* cast was answered 'Candidate not found in this voting session'
C10_RemovedCandidateAnswered400 ==
    /\ Done(1)
    /\ adminResp = Some(RespCandidateRemoved)
    /\ req[1].candidateId = "c2"
    /\ ~req[1].isCustomCandidate
    /\ req[1].resp = Some(RespCandidateNotFound)
    /\ votes = {}

\* ================================================================ results claims
\* A results request and the ballots, stated on the stores themselves.
BallotsOf(sid) == {v \in votes : v.votingSessionId = sid}

BallotsNamed(sid, name) == {v \in BallotsOf(sid) : v.candidateName = name}

\* this step is the aggregate read of a session's results request
AggregateStep ==
    res.pc = "aggregate" /\ res'.pc = "count" /\ res.votingSessionId # None

\* this step answers the results request
ResultsAnswered == ResultsInFlight /\ res'.pc = "done"

ResultsDone == res.pc = "done" /\ res.resp[1].status = 200

RECURSIVE SumVoteCount(_)
SumVoteCount(q) == IF q = <<>> THEN 0 ELSE Head(q).voteCount + SumVoteCount(Tail(q))

\* ---------------------------------------------------------------- C11
\* C11: for every session S and every ballot store, the aggregate read of
\* getSessionResults(S) returns exactly one entry per candidate name that has
\* at least one ballot in S and no other entry, with voteCount the number of
\* S's ballots of that name and customCandidateCount the number of those with
\* isCustomCandidate true; the count read returns as totalVotes the number of
\* ballots of S; ballots of other sessions are counted nowhere.
C11_ResultsCountBallotsOfSession ==
    [][/\ AggregateStep =>
            LET q == res'.results
                S == res.votingSessionId
                names == {v.candidateName : v \in votes}
                            \cup {q[i].candidateName : i \in DOMAIN q}
            IN  \A name \in names :
                    LET entries == {i \in DOMAIN q : q[i].candidateName = name}
                        n == Cardinality(BallotsNamed(S, name))
                    IN  IF n = 0 THEN entries = {}
                        ELSE /\ Cardinality(entries) = 1
                             /\ \A i \in entries :
                                    /\ q[i].voteCount = n
                                    /\ q[i].customCandidateCount =
                                         Cardinality({v \in BallotsNamed(S, name) :
                                                        v.isCustomCandidate})
       /\ (res.pc = "count" /\ res'.pc = "distinct" /\ res.votingSessionId # None)
            => res'.totalVotes = Cardinality(BallotsOf(res.votingSessionId))
      ]_vars

\* a results response with an entry of two ballots, one of them custom, and three
\* ballots in all, while another session holds a ballot too
C11_ResultsWithCustomCount ==
    /\ ResultsDone
    /\ res.votingSessionId = "s1"
    /\ res.resp[1].totalVotes = 3
    /\ \E i \in DOMAIN res.resp[1].results :
            /\ res.resp[1].results[i].voteCount = 2
            /\ res.resp[1].results[i].customCandidateCount = 1
    /\ Cardinality(BallotsOf("s1")) = 3
    /\ BallotsOf("s2") # {}

\* ---------------------------------------------------------------- C12
\* C12: the results list read by getSessionResults and getVoteResults is
\* ordered by voteCount, non-increasing from each entry to the next, and the
\* candidates list of the response is the sorted list (by code unit, no name
\* twice) of the distinct candidate names of the scope.
C12_ResultsOrdered ==
    [][/\ (res.pc = "aggregate" /\ res'.pc = "count") =>
            \A i \in 1..(Len(res'.results) - 1) :
                res'.results[i].voteCount >= res'.results[i + 1].voteCount
       /\ (ResultsAnswered /\ res'.resp[1].status = 200) =>
            LET c == res'.resp[1].candidates
                scope == IF res.votingSessionId = None THEN votes
                         ELSE BallotsOf(res.votingSessionId)
            IN  /\ {c[i] : i \in DOMAIN c} = {v.candidateName : v \in scope}
                /\ \A i \in 1..(Len(c) - 1) : NameLess(c[i], c[i + 1])
      ]_vars

\* a response whose results list holds a count of 2 before a count of 1 and
\* whose candidates list holds three names
C12_TwoBeforeOne ==
    /\ ResultsDone
    /\ Len(res.resp[1].results) >= 2
    /\ res.resp[1].results[1].voteCount = 2
    /\ res.resp[1].results[2].voteCount = 1
    /\ Len(res.resp[1].candidates) = 3

\* ---------------------------------------------------------------- C13
\* C13: every results response reflects one snapshot of the ballots:
\* totalVotes is the sum of voteCount over the results entries and
\* totalCandidates is the number of results entries, also when casts or
\* cascading deletions are committed while the request is in progress.
C13_ResponseIsOneSnapshot ==
    ResultsDone =>
        /\ res.resp[1].totalVotes = SumVoteCount(res.resp[1].results)
        /\ res.resp[1].totalCandidates = Len(res.resp[1].results)

\* ---------------------------------------------------------------- C14
\* C14: the session results handler grants the reads only to a caller who is
\* an admin or is, when checked, in the session's assignedUsers; any other
\* caller is answered 403 without results, a session that does not exist is
\* answered 404, and only a granted request is answered 200.
C14_ResultsOnlyForAssignedOrAdmin ==
    [][res.votingSessionId # None =>
        LET S == res.votingSessionId
            exists == S \in SessionIds /\ sessions[S] # Absent
            permitted == \/ Role(res.caller) = "admin"
                         \/ exists /\ res.caller \in sessions[S][1].assignedUsers
        IN  /\ (res.pc = "findSession" /\ res' # res) =>
                IF exists THEN res'.pc \in {"isAssigned", "aggregate"}
                ELSE res'.resp = Some(RespSessionNotFound)
            /\ (res.pc \in {"findSession", "isAssigned"} /\ res'.pc = "aggregate")
                    => permitted
            /\ (res.pc = "isAssigned" /\ res' # res /\ ~permitted)
                    => res'.resp = Some(RespNotAssigned)
            /\ (ResultsAnswered /\ res'.resp[1].status = 200) => res.pc = "distinct"
      ]_vars

\* a user who is not assigned was answered 403 for a session that holds ballots
C14_UnassignedAnswered403 ==
    /\ res.pc = "done"
    /\ res.caller = "u2"
    /\ res.votingSessionId = "s1"
    /\ sessions["s1"] # Absent
    /\ BallotsOf("s1") # {}
    /\ res.resp = Some(RespNotAssigned)

\* ================================================================ deletion claims
\* ---------------------------------------------------------------- C15
\* C15: no step changes a field of a stored ballot, and every step that removes
\* a ballot removes it as part of deleting its session (the cascade of the
\* session deletion in flight) or of deleting its user.
C15_BallotsLeaveOnlyWithSessionOrUser ==
    [][/\ \A v \in votes : \A w \in votes' : v._id = w._id => v = w
       /\ \A v \in votes :
            v \notin votes' =>
                \/ del.pc = "cascade" /\ del.id = v.votingSessionId
                \/ v.userId \in StoredUserIds /\ v.userId \notin UserIdsOf(users')
      ]_vars

\* ---------------------------------------------------------------- C16
\* C16: when admin a1 requests the deletion of a stored user who is not an
\* admin and not a1, the request is answered 200 'User and associated votes
\* deleted successfully', the user leaves the user store and every ballot of
\* the user leaves the ballot store.
C16_DeleteUserCascades ==
    [][\A id \in StoredUserIds :
        (DeleteUser("a1", id) /\ id # "a1" /\ Role(id) # "admin") =>
            /\ adminResp' = Some(RespUserDeleted)
            /\ users' = {u \in users : u._id # id}
            /\ votes' = {v \in votes : v.userId # id}
      ]_vars

\* ---------------------------------------------------------------- C17
\* C17: a user deletion requested by admin a1 is answered 403 'Cannot delete
\* your own account' when the target is a1, 403 'Cannot delete admin users'
\* when the target is another stored admin, and 404 'User not found' when no
\* user has the target id; in all three cases users and ballots stay as they
\* are.
C17_DeleteUserRefusals ==
    [][\A id \in {"a1", "a2", "u9"} :
        DeleteUser("a1", id) =>
            /\ users' = users
            /\ votes' = votes
            /\ id = "a1" => adminResp' = Some(RespCannotDeleteSelf)
            /\ (id # "a1" /\ id \in StoredUserIds /\ Role(id) = "admin")
                    => adminResp' = Some(RespCannotDeleteAdmin)
            /\ id \notin StoredUserIds => adminResp' = Some(RespUserNotFound)
      ]_vars

\* ---------------------------------------------------------------- C18
\* C18: when the cascade of a session deletion for session S completes with no
\* cast request in flight, S is not stored, no ballot of S is stored, the
\* ballots of every other session are the ones stored before, and the request
\* is answered 200; the first step of the deletion removes no ballot; deleting
\* a session that does not exist is answered 404 and changes neither sessions
\* nor ballots.
C18_SessionDeletionCascades ==
    [][/\ (del.pc = "cascade" /\ del'.pc = "idle" /\ \A p \in Procs : ~InFlight(p)) =>
            /\ sessions'[del.id] = Absent
            /\ {v \in votes' : v.votingSessionId = del.id} = {}
            /\ {v \in votes' : v.votingSessionId # del.id}
                    = {v \in votes : v.votingSessionId # del.id}
            /\ adminResp' = Some(RespSessionDeleted)
       /\ (del.pc = "idle" /\ del'.pc = "cascade") =>
            /\ votes' = votes
            /\ sessions'[del'.id] = Absent
       /\ \A id \in {"s1", "s2", "s9"} :
            (DeleteSessionBegin(id) /\ (id \notin SessionIds \/ sessions[id] = Absent)) =>
                /\ adminResp' = Some(RespSessionNotFound)
                /\ votes' = votes
                /\ sessions' = sessions
      ]_vars

\* the session in which a cast was answered 201 has been deleted with its
\* ballots, and the ballot of the other session is still stored
C18_SessionAndBallotsGone ==
    /\ Done(1)
    /\ req[1].resp = Some(RespVoteCast)
    /\ req[1].votingSessionId = "s1"
    /\ del = IdleDel
    /\ adminResp = Some(RespSessionDeleted)
    /\ sessions["s1"] = Absent
    /\ votes = {StoredBallot(14, "u2", "s2", NameA, FALSE)}

\* ================================================================ status claims
SessionStatus(id) == sessions[id][1].status

PollStatus(id) == polls[id][1].status

\* the session (the poll) is stored before and after the step
SessionStays(id) == sessions[id] # Absent /\ sessions'[id] # Absent

PollStays(id) == polls[id] # Absent /\ polls'[id] # Absent

\* ---------------------------------------------------------------- C19
\* C19: every step that makes the status of a session or a poll active starts
\* from status draft, and a request to make a session active that finds it in
\* another status is answered 400 and leaves the session as it is.
C19_ActiveOnlyFromDraft ==
    [][/\ \A id \in SessionIds :
            (SessionStays(id) /\ sessions'[id][1].status = "active"
                /\ SessionStatus(id) # "active") => SessionStatus(id) = "draft"
       /\ \A id \in PollIds :
            (PollStays(id) /\ polls'[id][1].status = "active"
                /\ PollStatus(id) # "active") => PollStatus(id) = "draft"
       /\ \A id \in SessionIds :
            (UpdateVotingSession(id, [status |-> "active"]) /\ sessions[id] # Absent
                /\ SessionStatus(id) # "draft") =>
                    /\ adminResp'[1].status = 400
                    /\ sessions' = sessions
      ]_vars

\* ---------------------------------------------------------------- C20
\* C20: closed (sessions), ended and cancelled (polls) are terminal: no step
\* changes the status of a session or poll that has one of them.
C20_TerminalStatusStays ==
    [][/\ \A id \in SessionIds :
            (SessionStays(id) /\ SessionStatus(id) = "closed")
                => sessions'[id][1].status = "closed"
       /\ \A id \in PollIds :
            (PollStays(id) /\ PollStatus(id) \in {"ended", "cancelled"})
                => polls'[id][1].status = PollStatus(id)
      ]_vars

\* ================================================================ time windows
\* ---------------------------------------------------------------- C21
\* C21: in every state, every stored session that has both a start and an end
\* date, and every stored poll, has its end date strictly after its start date.
C21_EndAfterStart ==
    /\ \A id \in SessionIds :
            (sessions[id] # Absent /\ sessions[id][1].startDate # Absent
                /\ sessions[id][1].endDate # Absent)
                => sessions[id][1].endDate[1] > sessions[id][1].startDate[1]
    /\ \A id \in PollIds :
            polls[id] # Absent => polls[id][1].endDate > polls[id][1].startDate

C23_LegacyOneCastSucceeds ==
    [][/\ \A p \in Procs :
            (req[p].pc \in {"legacyValidate", "legacySave"} /\ req'[p].pc = "done"
                /\ HasName(req[p])) =>
                IF FindLegacyVote(req[p].userId) = {}
                THEN /\ req'[p].resp = Some(RespVoteCast)
                     /\ \E v \in votes' \ votes :
                            /\ votes' = votes \cup {v}
                            /\ v.userId = req[p].userId
                            /\ v.candidateName = Trim(req[p].candidateName)
                ELSE /\ req'[p].resp = Some(RespLegacyAlreadyVoted)
                     /\ votes' = votes
       /\ \A u \in UserIds : Cardinality({v \in votes' : v.userId = u}) <= 1
      ]_vars

\* ================================================================ middleware claims
Stores == <<sessions, votes, users, polls>>

\* the header carries a token that is malformed, wrongly signed or expired at t
BadToken(header, t) ==
    /\ TokenOf(header) # Absent
    /\ LET token == TokenOf(header)[1]
       IN  ~token.wellFormed \/ token.key # Secret \/ token.exp <= t

MiddlewareStep == http.pc \in {"authenticate", "findUser"} /\ http' # http

\* ---------------------------------------------------------------- C24
\* C24: a request whose header carries no token is answered 401 'Access token
\* required', and one whose token is malformed, expired or wrongly signed is
\* answered 403 'Invalid or expired token', both by authenticateToken; a
\* request the middleware answered never reaches the route handler, a handler
\* is reached only through a verified token, and the steps of the middleware
\* change no store.
C24_TokenRequired ==
    [][/\ (http.pc = "authenticate" /\ http' # http /\ TokenOf(http.header) = Absent)
            => (http'.pc = "done" /\ http'.resp = Some(RespTokenRequired))
       /\ (http.pc = "authenticate" /\ http' # http /\ BadToken(http.header, now))
            => (http'.pc = "done" /\ http'.resp = Some(RespInvalidToken))
       /\ (http'.pc = "findUser" /\ http.pc # "findUser")
            => (http.pc = "authenticate" /\ TokenOf(http.header) # Absent
                    /\ ~BadToken(http.header, now))
       /\ (http'.pc = "handler" /\ http.pc # "handler") => http.pc = "findUser"
       /\ (http.pc = "done" /\ http' # http) => http'.pc = "authenticate"
       /\ MiddlewareStep => Stores' = Stores
      ]_vars

\* an admin's token signed with another key was answered 403 on the route that
\* deletes a session, and the session is stored
C24_WronglySignedAnswered403 ==
    /\ http.pc = "done"
    /\ http.route = "deleteSession"
    /\ http.header = <<"Bearer", Jwt("a1", "other", 1, TRUE)>>
    /\ http.resp = Some(RespInvalidToken)
    /\ sessions["s1"] # Absent

\* ---------------------------------------------------------------- C25
\* C25: on a route behind requireAdmin, a request authenticated as a stored
\* user whose role is not admin is answered 403 'Admin access required' by the
\* middleware with no store changed, and the handler of such a route is
\* reached only by a request whose user has the role admin.
C25_AdminRequired ==
    [][/\ (/\ http.pc = "findUser" /\ http' # http
           /\ RouteGuard[http.route] = "admin"
           /\ \E u \in users : u._id = http.decoded /\ u.role # "admin")
            => (/\ http'.pc = "done"
                /\ http'.resp = Some(RespAdminRequired)
                /\ Stores' = Stores)
       /\ (http'.pc = "handler" /\ http.pc # "handler"
                /\ RouteGuard[http'.route] = "admin")
            => (http'.user # Absent /\ http'.user[1].role = "admin")
       /\ (http.pc = "done" /\ http.resp = Some(RespAdminRequired) /\ http' # http)
            => (http'.pc = "authenticate" /\ Stores' = Stores)
      ]_vars

\* user u1 was answered 403 on the route that deletes all votes, and u1's
\* ballot is stored
C25_UserAnswered403 ==
    /\ http.pc = "done"
    /\ http.route = "deleteAllVotes"
    /\ http.decoded = "u1"
    /\ http.resp = Some(RespAdminRequired)
    /\ \E v \in votes : v.userId = "u1"

\* ================================================================ user claims
\* ---------------------------------------------------------------- C26
\* C26: after every step no two stored users share a username and no two share
\* an email, and a creation whose document has the username or the email of a
\* stored user when it is saved ends with an error and stores nothing.
C26_UsersUnique ==
    [][/\ \A u \in users' : \A v \in users' :
            (u.username = v.username \/ u.email = v.email) => u = v
       /\ \A p \in Procs :
            (/\ userReq[p].pc = "save" /\ userReq'[p].pc = "done"
             /\ \E u \in users : \/ u.username = Trim(userReq[p].username)
                                  \/ u.email = LowerCase(Trim(userReq[p].email)))
                => (users' = users /\ userReq'[p].outcome # "created")
      ]_vars

\* a creation that passed the pre-check was refused by a unique index while
\* another user with its email under another username is stored
C26_IndexRefusedDuplicate ==
    \E p \in Procs :
        /\ userReq[p].pc = "done"
        /\ userReq[p].outcome = "E11000"
        /\ \E u \in users : /\ u.email = LowerCase(Trim(userReq[p].email))
                             /\ u.username # Trim(userReq[p].username)

\* ================================================================ concurrency claims
\* ---------------------------------------------------------------- C27
\* C27: whenever no request is in flight, every ballot cast in a session refers
\* to a session that is stored.
C27_NoOrphanBallot ==
    Quiet => \A v \in votes :
                v.votingSessionId \in SessionIds => sessions[v.votingSessionId] # Absent

\* ---------------------------------------------------------------- C28
\* C28: every step that inserts a ballot of a session inserts it while the
\* session's stored status is active and the voter is in its assignedUsers.
C28_InsertedWhileActiveAndAssigned ==
    [][\A v \in votes' \ votes :
        (v.votingSessionId \in SessionIds /\ sessions[v.votingSessionId] # Absent) =>
            /\ sessions[v.votingSessionId][1].status = "active"
            /\ v.userId \in sessions[v.votingSessionId][1].assignedUsers
      ]_vars

\* ---------------------------------------------------------------- C29
\* C29: every step that inserts a ballot of a session whose allowNewCandidates
\* is false inserts a candidateName that is the name of one of the session's
\* candidates, and when the ballot has a candidateId, the name of the candidate
\* with that id.
C29_StoredNameIsPredefined ==
    [][\A v \in votes' \ votes :
        (/\ v.votingSessionId \in SessionIds
         /\ sessions[v.votingSessionId] # Absent
         /\ ~sessions[v.votingSessionId][1].allowNewCandidates) =>
            LET cands == sessions[v.votingSessionId][1].candidates IN
            /\ \E i \in DOMAIN cands : cands[i].name = v.candidateName
            /\ v.candidateId # None =>
                    \E i \in DOMAIN cands : /\ cands[i]._id = v.candidateId
                                            /\ cands[i].name = v.candidateName
      ]_vars

\* ---------------------------------------------------------------- C30
\* C30: every session in the answer of getUserVotingSessions is stored with the
\* user in assignedUsers, status active, a start date that is absent or not
\* after now, and an end date that is absent or not before now.
C30_ListedSessionsAreOpen ==
    [][\A u \in UserIds :
        GetUserVotingSessions(u) =>
            \A id \in adminResp'[1].votingSessions :
                /\ sessions[id] # Absent
                /\ u \in sessions[id][1].assignedUsers
                /\ sessions[id][1].status = "active"
                /\ (sessions[id][1].startDate = Absent
                        \/ sessions[id][1].startDate[1] <= now)
                /\ (sessions[id][1].endDate = Absent
                        \/ sessions[id][1].endDate[1] >= now)
      ]_vars

====
